---- MODULE Spec2Model ----
(***************************************************************************)
(* Kairos RSS triage system: the items table and its triage handlers       *)
(* (app/main.py), the webhook queue and its delivery loop                  *)
(* (app/webhook_handler.py), the feed fetcher (app/feed_fetcher.py) and    *)
(* the storage functions they call (app/database.py).                      *)
(***************************************************************************)
EXTENDS Integers, Sequences, FiniteSets, TLC

\* ---------------------------------------------------------------- bounds
MaxItems == 2       \* rows the items table may hold
MaxJobs == 2        \* rows the webhook_queue table may hold
MaxTime == 2        \* the wall clock runs over 0..MaxTime
MaxRetry == 4       \* WEBHOOK_RETRY_COUNT is configured in 1..MaxRetry
MaxEntries == 2     \* entries in one feed document
MaxRedirects == 1   \* redirects a feed server answers with before the final response
MaxPad == 1         \* whitespace characters before and after a URL
MaxWorkers == 2     \* FEED_PARALLEL_WORKERS is configured in 1..MaxWorkers
MaxCalls == 3       \* validate_url is applied to its own result up to MaxCalls times
MaxBatch == 21      \* rows of the webhook_queue table a previous run may have left
MaxSummary == 2001  \* characters of the summary a feed entry carries, after sanitize_html
MaxSessions == 2     \* sessions created in one run
MaxPosts == 3
MaxRuns == 2       \* POSTs issued for one job before drain cycles stop raising at its UPDATE

\* ------------------------------------------------------ program constants
DefaultRetryCount == 3      \* config.py: WEBHOOK_RETRY_COUNT
SqlAttemptLimit == 3        \* database.py: "attempts < 3" in get_pending_webhooks
DrainBatchLimit == 20       \* webhook_handler.py: get_pending_webhooks(limit=20)
MAX_ITEMS_PER_FEED == 50    \* config.py: MAX_ITEMS_PER_FEED
SummaryCap == 2000          \* feed_fetcher.py: "len(summary) > 2000"
DescriptionCap == 500       \* webhook_handler.py: "item['summary'][:500]"
DefaultWorkers == 5         \* config.py: FEED_PARALLEL_WORKERS

NULL == "NULL"       \* SQL NULL / Python None in a text column
NoTime == -1         \* SQL NULL in a DATETIME column

FeedIds == {1, 2}

\* URL strings: the scheme and the network location as written, and the
\* number of whitespace characters before and after them.
Url(scheme, host) == [scheme |-> scheme, host |-> host, lead |-> 0, trail |-> 0]

NoUrl == [scheme |-> NULL, host |-> NULL, lead |-> 0, trail |-> 0]    \* None
EmptyUrl == Url("", "")                                               \* ""
PublicFeedUrl == Url("https", "feeds.example")
PrivateFeedUrl == Url("http", "intranet.example")
MetadataUrl == Url("http", "metadata.internal")
HookUrl == Url("https", "hooks.example")
PrivateHookUrl == Url("http", "intranet.example")
Users == {"alice"}
TriageActions == {"alert", "digest", "skip"}
RequestedActions == TriageActions \cup {"pending"}

VARIABLES
    feeds,          \* feeds table: feed id -> row
    items,          \* items table: sequence of rows, id = position
    webhook_queue,  \* webhook_queue table: sequence of rows, id = position
    settings,       \* config.settings
    now,            \* datetime.utcnow(), in ticks
    resp,           \* the response of the latest API request
    drain,          \* process_webhook_queue: its position and locals
    posts,          \* job id -> number of POSTs issued for it so far
    net,            \* outbound calls of the latest delivery attempt or fetch task
    result,         \* what the latest fetch_single_feed returned
    pool,           \* fetch_all_feeds: the semaphore, the per-feed tasks, the summary
    validated,      \* the latest validate_url call: its argument and its outcome
    skip,           \* skip_all_pending: its position and the count it read
    note,           \* an item summary on its way from the feed to a notification payload
    users,          \* users table: user id -> row
    sessions,       \* sessions table: the set of its rows
    auth,           \* the latest authentication: the request and what it answered
    inflight        \* handlers and jobs suspended at an await: position and locals

vars == <<feeds, items, webhook_queue, settings, now, resp, drain, posts, net, result,
          pool, validated, skip, note, users, sessions, auth, inflight>>

authVars == <<note, users, sessions, auth, inflight>>

callVars == <<pool, validated, skip, authVars>>

\* a triage request for an alert between its awaits
NoAlert == [pc |-> "idle", item_id |-> 0, user |-> NULL]

\* a digest run between its awaits: the ids of the rows get_digest_items returned
NoDigest == [pc |-> "idle", items |-> {}]

\* a fetch_all_feeds invocation among others: its own semaphore and the
\* position of its per-feed tasks
NoRun == [pc |-> "none", semaphore |-> 0, tasks |-> [f \in FeedIds |-> "none"]]

NoInflight ==
    [alert |-> NoAlert, digest |-> NoDigest, runs |-> [r \in 1..MaxRuns |-> NoRun]]

\* ------------------------------------------------------- url_validator
\* str.lower(), on the schemes and hostnames written with capitals
lower(text) ==
    CASE text = "HTTP" -> "http"
      [] text = "LOCALHOST" -> "localhost"
      [] text = "Feeds.Example" -> "feeds.example"
      [] OTHER -> text

\* url.strip(): the string without its leading and trailing whitespace
strip(url) == [url EXCEPT !.lead = 0, !.trail = 0]

\* urlparse(url) raises ValueError on a bracket that is never closed
urlparse_raises(url) == url.host = "[::1"

\* urlparse(url): scheme and hostname come back in lower case, and the
\* hostname is the network location without its port
urlparse(url) ==
    [scheme |-> lower(url.scheme),
     netloc |-> url.host,
     hostname |-> IF url.host = ":80" THEN "" ELSE lower(url.host)]

\* socket.getaddrinfo(hostname, None): the kinds of address the name resolves
\* to, or the exception raised
getaddrinfo(host) ==
    CASE host = "intranet.example" -> [raises |-> "none", addrs |-> {"private"}]
      [] host = "metadata.internal" -> [raises |-> "none", addrs |-> {"link_local"}]
      [] host = "rebind.example" -> [raises |-> "none", addrs |-> {"public", "private"}]
      [] host = "loop.example" -> [raises |-> "none", addrs |-> {"loopback"}]
      [] host = "mcast.example" -> [raises |-> "none", addrs |-> {"multicast"}]
      [] host = "reserved.example" -> [raises |-> "none", addrs |-> {"reserved"}]
      [] host = "unspec.example" -> [raises |-> "none", addrs |-> {"unspecified"}]
      [] host = "nxdomain.example" -> [raises |-> "gaierror", addrs |-> {}]
      [] host = "idna.example" -> [raises |-> "UnicodeError", addrs |-> {}]
      [] OTHER -> [raises |-> "none", addrs |-> {"public"}]

\* is_private_ip, were it to know the private ranges only
is_private_ip_private_only(addr) == addr = "private"

\* ip.is_private or ip.is_loopback or ip.is_link_local or ip.is_multicast
\* or ip.is_reserved or ip.is_unspecified
is_private_ip(addr) ==
    addr \in {"private", "loopback", "link_local", "multicast", "reserved", "unspecified"}

localhost_names ==
    {"localhost", "127.0.0.1", "::1", "0.0.0.0", "127.0.0.0", "0", "localhost.localdomain"}

\* validate_url, were it to look at the hostname before the scheme
validate_url_hostname_first(url, purpose) ==
    IF url = NoUrl \/ url = EmptyUrl THEN "empty"
    ELSE IF urlparse_raises(strip(url)) THEN "format"
    ELSE LET parsed == urlparse(strip(url))
             answer == getaddrinfo(parsed.hostname)
         IN  IF parsed.netloc = "" \/ parsed.hostname = "" THEN "hostname"
             ELSE IF parsed.scheme \notin {"http", "https"} THEN "scheme"
             ELSE IF parsed.hostname \in localhost_names THEN "localhost"
             ELSE IF answer.raises = "gaierror" THEN "resolve"
             ELSE IF answer.raises = "none" /\ \E a \in answer.addrs : is_private_ip(a)
                  THEN "private"
             ELSE ""

\* validate_url, were "except Exception" to stand before "except
\* URLValidationError" in the resolution step
validate_url_swallowing(url, purpose) ==
    IF url = NoUrl \/ url = EmptyUrl THEN "empty"
    ELSE IF urlparse_raises(strip(url)) THEN "format"
    ELSE LET parsed == urlparse(strip(url))
             answer == getaddrinfo(parsed.hostname)
         IN  IF parsed.scheme \notin {"http", "https"} THEN "scheme"
             ELSE IF parsed.netloc = "" \/ parsed.hostname = "" THEN "hostname"
             ELSE IF parsed.hostname \in localhost_names THEN "localhost"
             ELSE IF answer.raises = "gaierror" THEN "resolve"
             ELSE ""

\* validate_url(url, purpose): "" where it returns, else the failure it raises
validate_url(url, purpose) ==
    IF url = NoUrl \/ url = EmptyUrl THEN "empty"
    ELSE IF urlparse_raises(strip(url)) THEN "format"
    ELSE LET parsed == urlparse(strip(url))
             answer == getaddrinfo(parsed.hostname)
         IN  IF parsed.scheme \notin {"http", "https"} THEN "scheme"
             ELSE IF parsed.netloc = "" \/ parsed.hostname = "" THEN "hostname"
             ELSE IF parsed.hostname \in localhost_names THEN "localhost"
             ELSE IF answer.raises = "gaierror" THEN "resolve"
             ELSE IF answer.raises = "none" /\ \E a \in answer.addrs : is_private_ip(a)
                  THEN "private"
             ELSE ""

\* validate_url, were it to return the URL rebuilt from its parsed parts
validate_url_returns_rebuilt(url) ==
    [strip(url) EXCEPT !.scheme = lower(@), !.host = lower(@)]

\* validate_url(url, purpose): the value it returns where it does not raise
validate_url_returns(url) == strip(url)

\* ------------------------------------------------------------- storage
\* SELECT i.*, f.name FROM items i JOIN feeds f ON i.feed_id = f.id WHERE i.id = ?
\* The rows fetched: <<row>>, or <<>> where fetchone() gives None.
get_item_by_id(item_id) ==
    IF item_id \in 1..Len(items) /\ feeds[items[item_id].feed_id].present
    THEN <<items[item_id]>>
    ELSE <<>>

\* UPDATE items SET status = ?, triaged_at = ?, triaged_by = ? WHERE id = ?
update_item_status(tbl, item_id, status, triaged_by) ==
    IF item_id \in 1..Len(tbl)
    THEN [tbl EXCEPT ![item_id] = [@ EXCEPT !.status = status,
                                            !.triaged_at = now,
                                            !.triaged_by = triaged_by]]
    ELSE tbl

NewItem(feed_id, guid) ==
    [feed_id |-> feed_id, guid |-> guid, status |-> "pending",
     triaged_at |-> NoTime, triaged_by |-> NULL]

\* the INSERT, were the guid column not UNIQUE
add_item_inserts_any(tbl, guid) == TRUE

\* add_item, were its statement INSERT OR REPLACE
add_item_replacing(tbl, feed_id, guid) ==
    IF \A i \in 1..Len(tbl) : tbl[i].guid # guid
    THEN Append(tbl, NewItem(feed_id, guid))
    ELSE [i \in 1..Len(tbl) |->
             IF tbl[i].guid = guid THEN NewItem(feed_id, guid) ELSE tbl[i]]

\* INSERT INTO items (feed_id, guid, ...): guid is UNIQUE, and a duplicate
\* raises IntegrityError, which add_item turns into None
add_item_inserts(tbl, guid) == \A i \in 1..Len(tbl) : tbl[i].guid # guid

add_item(tbl, feed_id, guid) ==
    IF add_item_inserts(tbl, guid) THEN Append(tbl, NewItem(feed_id, guid)) ELSE tbl

\* UPDATE feeds SET last_fetched = ?, last_error = ? WHERE id = ?
update_feed_status(tbl, feed_id, error) ==
    IF tbl[feed_id].present
    THEN [tbl EXCEPT ![feed_id] = [@ EXCEPT !.last_fetched = now, !.last_error = error]]
    ELSE tbl

\* SELECT COUNT(*) FROM items WHERE status = 'pending'
get_pending_count == Cardinality({i \in 1..Len(items) : items[i].status = "pending"})

\* UPDATE items SET status = 'skipped', triaged_at = ?, triaged_by = ?
\* WHERE status = 'pending'; returns the count read before the update
skip_all_pending(user_identifier) ==
    [i \in 1..Len(items) |->
        IF items[i].status = "pending"
        THEN [items[i] EXCEPT !.status = "skipped", !.triaged_at = now,
                              !.triaged_by = user_identifier]
        ELSE items[i]]

\* SELECT ... FROM items i JOIN feeds f ON i.feed_id = f.id WHERE i.status = 'digested'
get_digest_items ==
    {i \in 1..Len(items) : items[i].status = "digested"
                           /\ feeds[items[i].feed_id].present}

\* UPDATE items SET status = 'archived' WHERE status = 'digested'
clear_digest_items ==
    [i \in 1..Len(items) |->
        IF items[i].status = "digested"
        THEN [items[i] EXCEPT !.status = "archived"]
        ELSE items[i]]

\* INSERT INTO webhook_queue (item_id, payload) VALUES (?, ?)
\* attempts DEFAULT 0, status DEFAULT 'pending'
add_to_webhook_queue(item_id, payload) ==
    Append(webhook_queue, [item_id |-> item_id, payload |-> payload,
                           attempts |-> 0, last_attempt |-> NoTime,
                           status |-> "pending", error_message |-> NULL])

\* queue_webhook, were it to enqueue nothing for an item that still has a pending job
queue_webhook_dedup(item_id, triaged_by) ==
    IF \E j \in 1..Len(webhook_queue) :
          webhook_queue[j].item_id = item_id /\ webhook_queue[j].status = "pending"
    THEN webhook_queue
    ELSE add_to_webhook_queue(item_id, [item |-> item_id, triaged_by |-> triaged_by])

\* queue_webhook builds the payload from the item and the acting identity
queue_webhook(item_id, triaged_by) ==
    add_to_webhook_queue(item_id, [item |-> item_id, triaged_by |-> triaged_by])

\* UPDATE webhook_queue SET status = ?, attempts = attempts + 1,
\* last_attempt = ?, error_message = ? WHERE id = ?
update_webhook_status(tbl, webhook_id, status, error_message) ==
    [tbl EXCEPT ![webhook_id] = [@ EXCEPT !.status = status,
                                          !.attempts = @ + 1,
                                          !.last_attempt = now,
                                          !.error_message = error_message]]

\* the ids of a set of rows, in creation order
RECURSIVE InOrder(_)
InOrder(S) ==
    IF S = {} THEN <<>>
    ELSE LET m == CHOOSE x \in S : \A y \in S : x <= y
         IN  <<m>> \o InOrder(S \ {m})

Take(seq, n) == SubSeq(seq, 1, IF Len(seq) < n THEN Len(seq) ELSE n)

\* get_pending_webhooks, were it to ORDER BY created_at DESC
get_pending_webhooks_newest_first(limit) ==
    LET oldest_first == InOrder({j \in 1..Len(webhook_queue) :
                                    /\ webhook_queue[j].status = "pending"
                                    /\ webhook_queue[j].attempts < SqlAttemptLimit})
        newest_first == [k \in 1..Len(oldest_first) |->
                            oldest_first[Len(oldest_first) + 1 - k]]
    IN  Take(newest_first, limit)

\* SELECT * FROM webhook_queue WHERE status = 'pending' AND attempts < 3
\* ORDER BY created_at ASC LIMIT ?  (created_at is CURRENT_TIMESTAMP at the
\* INSERT, so it does not decrease with the id)
get_pending_webhooks(limit) ==
    Take(InOrder({j \in 1..Len(webhook_queue) :
                     /\ webhook_queue[j].status = "pending"
                     /\ webhook_queue[j].attempts < SqlAttemptLimit}), limit)

triageVars == <<drain, posts, net, result, callVars>>

\* the JSON body or HTTPException a handler answers with
Response(op, code, count) == [op |-> op, code |-> code, count |-> count]

\* ------------------------------------------------------------ handlers
\* POST /api/items/{item_id}/triage
triage_item(item_id, action, user) ==
    IF action \notin TriageActions
    THEN /\ resp' = Response("triage", 400, 0)
         /\ UNCHANGED <<feeds, items, webhook_queue, settings, now, triageVars>>
    ELSE IF get_item_by_id(item_id) = <<>>
    THEN /\ resp' = Response("triage", 404, 0)
         /\ UNCHANGED <<feeds, items, webhook_queue, settings, now, triageVars>>
    ELSE IF action = "alert"
    THEN /\ Len(webhook_queue) < MaxJobs
         /\ items' = update_item_status(items, item_id, "alerted", user)
         /\ webhook_queue' = queue_webhook(item_id, user)
         /\ posts' = Append(posts, 0)
         /\ resp' = Response("triage", 200, 0)
         /\ UNCHANGED <<feeds, settings, now, drain, net, result, callVars>>
    ELSE IF action = "digest"
    THEN /\ items' = update_item_status(items, item_id, "digested", user)
         /\ resp' = Response("triage", 200, 0)
         /\ UNCHANGED <<feeds, webhook_queue, settings, now, triageVars>>
    ELSE /\ items' = update_item_status(items, item_id, "skipped", user)
         /\ resp' = Response("triage", 200, 0)
         /\ UNCHANGED <<feeds, webhook_queue, settings, now, triageVars>>

\* undo_triage, were it to withdraw the pending jobs of the item as well
undo_triage_withdrawing(item_id, user) ==
    IF get_item_by_id(item_id) = <<>>
    THEN /\ resp' = Response("undo", 404, 0)
         /\ UNCHANGED <<feeds, items, webhook_queue, settings, now, triageVars>>
    ELSE IF get_item_by_id(item_id)[1].status = "pending"
    THEN /\ resp' = Response("undo", 400, 0)
         /\ UNCHANGED <<feeds, items, webhook_queue, settings, now, triageVars>>
    ELSE /\ items' = update_item_status(items, item_id, "pending", NULL)
         /\ webhook_queue' =
               [j \in 1..Len(webhook_queue) |->
                   IF webhook_queue[j].item_id = item_id
                      /\ webhook_queue[j].status = "pending"
                   THEN [webhook_queue[j] EXCEPT !.status = "skipped"]
                   ELSE webhook_queue[j]]
         /\ resp' = Response("undo", 200, 0)
         /\ UNCHANGED <<feeds, settings, now, triageVars>>

\* undo_triage, were it to lack the "already pending" check
undo_triage_unchecked(item_id, user) ==
    IF get_item_by_id(item_id) = <<>>
    THEN /\ resp' = Response("undo", 404, 0)
         /\ UNCHANGED <<feeds, items, webhook_queue, settings, now, triageVars>>
    ELSE /\ items' = update_item_status(items, item_id, "pending", NULL)
         /\ resp' = Response("undo", 200, 0)
         /\ UNCHANGED <<feeds, webhook_queue, settings, now, triageVars>>

\* POST /api/items/{item_id}/undo
undo_triage(item_id, user) ==
    IF get_item_by_id(item_id) = <<>>
    THEN /\ resp' = Response("undo", 404, 0)
         /\ UNCHANGED <<feeds, items, webhook_queue, settings, now, triageVars>>
    ELSE IF get_item_by_id(item_id)[1].status = "pending"
    THEN /\ resp' = Response("undo", 400, 0)
         /\ UNCHANGED <<feeds, items, webhook_queue, settings, now, triageVars>>
    ELSE /\ items' = update_item_status(items, item_id, "pending", NULL)
         /\ resp' = Response("undo", 200, 0)
         /\ UNCHANGED <<feeds, webhook_queue, settings, now, triageVars>>

\* POST /api/items/skip-all
skip_all_items(user) ==
    /\ items' = skip_all_pending(user)
    /\ resp' = Response("skip_all", 200, get_pending_count)
    /\ UNCHANGED <<feeds, webhook_queue, settings, now, triageVars>>

\* POST /api/items/skip-all, first half: skip_all_pending reads the count
\* with its SELECT COUNT(*) and awaits
skip_all_pending_count(user) ==
    /\ skip.pc = "idle"
    /\ skip' = [pc |-> "counted", user |-> user, count |-> get_pending_count,
                changed |-> 0]
    /\ UNCHANGED <<feeds, items, webhook_queue, settings, now, resp, drain, posts, net,
                   result, pool, validated, authVars>>

\* second half: the UPDATE and the commit, then the handler answers with the
\* count read before (changed: the rows the UPDATE touched)
skip_all_pending_update ==
    /\ skip.pc = "counted"
    /\ items' = skip_all_pending(skip.user)
    /\ skip' = [skip EXCEPT !.pc = "idle", !.changed = get_pending_count]
    /\ resp' = Response("skip_all", 200, skip.count)
    /\ UNCHANGED <<feeds, webhook_queue, settings, now, drain, posts, net, result, pool,
                   validated, authVars>>

\* generate_digest: read the digested items, write the file, archive
generate_digest ==
    /\ items' = IF get_digest_items # {} THEN clear_digest_items ELSE items
    /\ resp' = Response("digest", 200, Cardinality(get_digest_items))
    /\ UNCHANGED <<feeds, webhook_queue, settings, now, triageVars>>

\* DELETE /api/feeds/{feed_id}: DELETE FROM feeds WHERE id = ?
\* (no connection sets PRAGMA foreign_keys, so no row of items goes with it)
delete_feed(feed_id) ==
    /\ feeds' = [feeds EXCEPT ![feed_id].present = FALSE]
    /\ resp' = Response("delete_feed", 200, 0)
    /\ UNCHANGED <<items, webhook_queue, settings, now, triageVars>>

Tick ==
    /\ now < MaxTime
    /\ now' = now + 1
    /\ UNCHANGED <<feeds, items, webhook_queue, settings, resp, triageVars>>

\* ------------------------------------------------------- delivery loop
Event(op, url, secs) == [op |-> op, url |-> url, secs |-> secs]

RECURSIVE Pow2(_)
Pow2(n) == IF n = 0 THEN 1 ELSE 2 * Pow2(n - 1)

DeliveryOutcomes == {"ok", "timeout", "http_error", "error"}

ErrorMessage(outcome) ==
    CASE outcome = "timeout" -> "Timeout after 10s"
      [] outcome = "http_error" -> "HTTP 500"
      [] OTHER -> "connection error"

\* send_webhook's calls, were the delay 2 ** attempts
send_webhook_calls_doubling(attempts) ==
    IF settings.WEBHOOK_URL = NoUrl THEN <<>>
    ELSE (IF attempts > 0 THEN <<Event("sleep", NoUrl, Pow2(attempts))>> ELSE <<>>)
         \o <<Event("POST", settings.WEBHOOK_URL, 0)>>

\* send_webhook(webhook_id, payload, attempts): the outbound calls it makes
send_webhook_calls(attempts) ==
    IF settings.WEBHOOK_URL = NoUrl THEN <<>>
    ELSE (IF attempts > 0 THEN <<Event("sleep", NoUrl, Pow2(attempts - 1))>> ELSE <<>>)
         \o <<Event("POST", settings.WEBHOOK_URL, 0)>>

\* send_webhook(webhook_id, payload, attempts): the table it leaves
send_webhook(tbl, webhook_id, outcome) ==
    IF settings.WEBHOOK_URL = NoUrl
    THEN update_webhook_status(tbl, webhook_id, "skipped", "WEBHOOK_URL not configured")
    ELSE IF outcome = "ok"
    THEN update_webhook_status(tbl, webhook_id, "sent", NULL)
    ELSE update_webhook_status(tbl, webhook_id, "pending", ErrorMessage(outcome))

\* send_webhook returns True only after a successful POST
send_webhook_success(outcome) == settings.WEBHOOK_URL # NoUrl /\ outcome = "ok"

NoSummary == [processed |-> 0, successful |-> 0, failed |-> 0, retry_pending |-> 0]

\* process_webhooks_background sleeps this long after every drain cycle
IdleInterval == 30

\* idle: the seconds the loop sleeps before the next cycle; raised: 0 when the
\* latest cycle returned, 1 or 2 when it raised (two raising cycles in a row
\* leave different marks)
NoDrain == [pc |-> "idle", pending |-> <<>>, done |-> <<>>, success |-> FALSE,
            summary |-> NoSummary, idle |-> 0, raised |-> 0]

\* process_webhook_queue, up to the loop: pending = get_pending_webhooks(limit=20)
process_webhook_queue_start ==
    /\ drain.pc = "idle"
    /\ LET pending == get_pending_webhooks(DrainBatchLimit)
       IN  drain' = IF pending = <<>>
                    THEN [NoDrain EXCEPT !.idle = IdleInterval]
                    ELSE [NoDrain EXCEPT
                             !.pc = "loop",
                             !.pending = [k \in 1..Len(pending) |->
                                             [id |-> pending[k],
                                              attempts |-> webhook_queue[pending[k]].attempts]],
                             !.summary = [NoSummary EXCEPT !.processed = Len(pending)]]
    /\ UNCHANGED <<feeds, items, webhook_queue, settings, now, resp, posts, net, result,
                   callVars>>

\* "for webhook in pending": success = await send_webhook(webhook_id, payload, attempts)
process_webhook_queue_send(outcome) ==
    /\ drain.pc = "loop"
    /\ drain.pending # <<>>
    /\ LET webhook == Head(drain.pending)
       IN  /\ net' = send_webhook_calls(webhook.attempts)
           /\ posts' = IF settings.WEBHOOK_URL = NoUrl THEN posts
                       ELSE [posts EXCEPT ![webhook.id] = @ + 1]
           /\ webhook_queue' = send_webhook(webhook_queue, webhook.id, outcome)
           /\ drain' = [drain EXCEPT !.pc = "sent",
                                     !.done = Append(@, webhook.id),
                                     !.success = send_webhook_success(outcome)]
    /\ UNCHANGED <<feeds, items, settings, now, resp, result, callVars>>

\* the rest of the iteration, were a failed delivery to end the "for" loop
process_webhook_queue_retry_aborting ==
    /\ drain.pc = "sent"
    /\ LET webhook == Head(drain.pending)
           exhausted == webhook.attempts + 1 >= settings.WEBHOOK_RETRY_COUNT
       IN  /\ webhook_queue' =
                 IF ~drain.success /\ exhausted
                 THEN update_webhook_status(webhook_queue, webhook.id, "failed",
                                            "Max retries exceeded")
                 ELSE webhook_queue
           /\ drain' = [drain EXCEPT
                 !.pc = "loop",
                 !.pending = IF drain.success THEN Tail(@) ELSE <<>>,
                 !.success = FALSE,
                 !.summary = IF drain.success THEN [@ EXCEPT !.successful = @ + 1]
                             ELSE IF exhausted THEN [@ EXCEPT !.failed = @ + 1]
                             ELSE [@ EXCEPT !.retry_pending = @ + 1]]
    /\ UNCHANGED <<feeds, items, settings, now, resp, posts, net, result, callVars>>

\* the rest of the iteration: the counters, and the check for exhausted retries
process_webhook_queue_retry ==
    /\ drain.pc = "sent"
    /\ LET webhook == Head(drain.pending)
           exhausted == webhook.attempts + 1 >= settings.WEBHOOK_RETRY_COUNT
       IN  /\ webhook_queue' =
                 IF ~drain.success /\ exhausted
                 THEN update_webhook_status(webhook_queue, webhook.id, "failed",
                                            "Max retries exceeded")
                 ELSE webhook_queue
           /\ drain' = [drain EXCEPT
                 !.pc = "loop",
                 !.pending = Tail(@),
                 !.success = FALSE,
                 !.summary = IF drain.success THEN [@ EXCEPT !.successful = @ + 1]
                             ELSE IF exhausted THEN [@ EXCEPT !.failed = @ + 1]
                             ELSE [@ EXCEPT !.retry_pending = @ + 1]]
    /\ UNCHANGED <<feeds, items, settings, now, resp, posts, net, result, callVars>>

\* process_webhook_queue returns its summary; the loop sleeps until the next cycle
process_webhook_queue_return ==
    /\ drain.pc = "loop"
    /\ drain.pending = <<>>
    /\ drain' = [drain EXCEPT !.pc = "idle", !.idle = IdleInterval]
    /\ UNCHANGED <<feeds, items, webhook_queue, settings, now, resp, posts, net, result,
                   callVars>>

\* what a drain cycle has done when a database call of it raises: nothing when
\* it is the query of get_pending_webhooks; the calls of send_webhook, but not
\* its UPDATE, when it is the UPDATE of send_webhook; the UPDATE of
\* send_webhook, but not the 'failed' one, when it is that of the retry check
process_webhook_queue_raised ==
    \/ /\ drain.pc = "idle"
       /\ UNCHANGED <<webhook_queue, posts, net>>
    \/ /\ drain.pc = "loop"
       /\ drain.pending # <<>>
       /\ posts[Head(drain.pending).id] < MaxPosts
       /\ net' = send_webhook_calls(Head(drain.pending).attempts)
       /\ posts' = IF settings.WEBHOOK_URL = NoUrl THEN posts
                   ELSE [posts EXCEPT ![Head(drain.pending).id] = @ + 1]
       /\ UNCHANGED webhook_queue
    \/ /\ drain.pc = "sent"
       /\ ~drain.success
       /\ Head(drain.pending).attempts + 1 >= settings.WEBHOOK_RETRY_COUNT
       /\ UNCHANGED <<webhook_queue, posts, net>>

\* the loop, were it to let the exception of a drain cycle through
process_webhook_queue_raises_uncaught ==
    /\ process_webhook_queue_raised
    /\ drain' = [NoDrain EXCEPT !.pc = "dead",
                                !.raised = IF drain.raised = 1 THEN 2 ELSE 1]
    /\ UNCHANGED <<feeds, items, settings, now, resp, result, callVars>>

\* process_webhooks_background: a drain cycle raises; "except Exception"
\* logs it, and the loop sleeps until the next cycle
process_webhook_queue_raises ==
    /\ process_webhook_queue_raised
    /\ drain' = [NoDrain EXCEPT !.idle = IdleInterval,
                                !.raised = IF drain.raised = 1 THEN 2 ELSE 1]
    /\ UNCHANGED <<feeds, items, settings, now, resp, result, callVars>>

\* shutdown, were CancelledError an Exception: the loop logs it and sleeps
\* until the next cycle
process_webhooks_background_cancel_swallowed ==
    /\ drain.pc # "cancelled"
    /\ drain' = [NoDrain EXCEPT !.idle = IdleInterval,
                                !.raised = IF drain.raised = 1 THEN 2 ELSE 1]
    /\ UNCHANGED <<feeds, items, webhook_queue, settings, now, resp, posts, net, result,
                   callVars>>

\* shutdown: webhook_task.cancel() raises CancelledError at the await the task
\* is at; it is no Exception, so the loop ends
process_webhooks_background_cancel ==
    /\ drain.pc # "cancelled"
    /\ drain' = [drain EXCEPT !.pc = "cancelled"]
    /\ UNCHANGED <<feeds, items, webhook_queue, settings, now, resp, posts, net, result,
                   callVars>>

\* ------------------------------------------------------------ ingestion
\* the guids the feeds' entries carry
Guids == {"g1", "g2"}

\* one iteration of the entry loop of fetch_single_feed: add_item for an entry
fetch_entry(feed_id, guid) ==
    /\ feeds[feed_id].present
    /\ Len(items) < MaxItems \/ ~add_item_inserts(items, guid)
    /\ items' = add_item(items, feed_id, guid)
    /\ UNCHANGED <<feeds, webhook_queue, settings, now, resp, triageVars>>

\* feedparser entries: the id and the link of each, either of which may be missing
Entries ==
    {[id |-> "g1", link |-> NULL], [id |-> NULL, link |-> "g2"], [id |-> NULL, link |-> NULL]}

EntrySeqs == UNION {[1..n -> Entries] : n \in 0..MaxEntries}

\* what the feed server answers: some redirects, then a final response
FinalResponses ==
    {[kind |-> "ok", bozo |-> b, entries |-> es] : b \in BOOLEAN, es \in EntrySeqs}
    \cup {[kind |-> k, bozo |-> FALSE, entries |-> <<>>] :
             k \in {"http_error", "timeout", "error"}}

RedirectTargets == {MetadataUrl}

RedirectChains == UNION {[1..n -> RedirectTargets] : n \in 0..MaxRedirects}

\* guid = entry.get('id') or entry.get('link') or f"{feed_id}_{items_processed}"
entry_guid(entry, feed_id, items_processed) ==
    IF entry.id # NULL THEN entry.id
    ELSE IF entry.link # NULL THEN entry.link
    ELSE ToString(feed_id) \o "_" \o ToString(items_processed)

\* the entry loop: add_item for each of parsed.entries[:MAX_ITEMS_PER_FEED]
RECURSIVE process_entries(_, _, _, _)
process_entries(tbl, feed_id, entries, k) ==
    IF k > Len(entries) \/ k > MAX_ITEMS_PER_FEED THEN tbl
    ELSE process_entries(add_item(tbl, feed_id, entry_guid(entries[k], feed_id, k)),
                         feed_id, entries, k + 1)

\* client.get(feed_url, follow_redirects=True): the requests httpx issues
client_get(feed_url, redirects) ==
    <<Event("GET", feed_url, 0)>> \o [k \in 1..Len(redirects) |-> Event("GET", redirects[k], 0)]

\* fetch_single_feed(feed, client): one per-feed task
fetch_single_feed(feed_id, redirects, response) ==
    /\ feeds[feed_id].present
    /\ feeds[feed_id].active
    /\ net' = client_get(feeds[feed_id].url, redirects)
    /\ IF response.kind = "timeout"
       THEN /\ feeds' = update_feed_status(feeds, feed_id, "Timeout after 30s")
            /\ result' = [feed_id |-> feed_id, items_added |-> 0,
                          error |-> "Timeout after 30s"]
            /\ items' = items
       ELSE IF response.kind # "ok"
       THEN /\ feeds' = update_feed_status(feeds, feed_id, response.kind)
            /\ result' = [feed_id |-> feed_id, items_added |-> 0, error |-> response.kind]
            /\ items' = items
       ELSE IF response.bozo /\ response.entries = <<>>
       THEN /\ feeds' = update_feed_status(feeds, feed_id, "Parse error")
            /\ result' = [feed_id |-> feed_id, items_added |-> 0, error |-> "Parse error"]
            /\ items' = items
       ELSE /\ items' = process_entries(items, feed_id, response.entries, 1)
            /\ Len(items') <= MaxItems
            /\ feeds' = update_feed_status(feeds, feed_id, NULL)
            /\ result' = [feed_id |-> feed_id, items_added |-> Len(items') - Len(items),
                          error |-> NULL]
    /\ UNCHANGED <<webhook_queue, settings, now, resp, drain, posts, callVars>>

\* ----------------------------------------------------- validate_url calls
Purposes == {"feed", "webhook"}

Schemes == {"http", "https", "HTTP", "ftp", "file", ""}

Hosts ==
    {"", ":80", "[::1", "feeds.example", "Feeds.Example", "localhost", "LOCALHOST",
     "127.0.0.1", "intranet.example", "metadata.internal", "rebind.example",
     "loop.example", "mcast.example", "reserved.example", "unspec.example",
     "nxdomain.example", "idna.example"}

\* the strings handed to validate_url, and None
Urls ==
    {NoUrl} \cup [scheme : Schemes, host : Hosts, lead : 0..MaxPad, trail : 0..MaxPad]

\* a caller evaluates validate_url(url, purpose)
validate_url_call ==
    /\ validated.calls = 0
    /\ validated' = [validated EXCEPT
          !.calls = 1,
          !.raises = validate_url(validated.url, validated.purpose),
          !.returns = IF validate_url(validated.url, validated.purpose) = ""
                      THEN validate_url_returns(validated.url)
                      ELSE NoUrl]
    /\ UNCHANGED <<feeds, items, webhook_queue, settings, now, resp, drain, posts, net,
                   result, pool, skip, authVars>>

\* the caller validates what the call before returned
validate_url_again ==
    /\ validated.calls >= 1
    /\ validated.calls < MaxCalls
    /\ validated.raises = ""
    /\ validated' = [validated EXCEPT
          !.url = validated.returns,
          !.calls = @ + 1,
          !.raises = validate_url(validated.returns, validated.purpose),
          !.returns = IF validate_url(validated.returns, validated.purpose) = ""
                      THEN validate_url_returns(validated.returns)
                      ELSE NoUrl]
    /\ UNCHANGED <<feeds, items, webhook_queue, settings, now, resp, drain, posts, net,
                   result, pool, skip, authVars>>

\* ----------------------------------------------------- fetch_all_feeds
\* one per-feed task of asyncio.gather: where it is, and the locals of
\* fetch_single_feed (item_id = 0 where add_item returned None)
NoTask ==
    [pc |-> "none", entries |-> <<>>, items_processed |-> 0, items_added |-> 0,
     item_id |-> -1, error |-> NULL]

RECURSIVE Sum(_, _)
Sum(f, S) ==
    IF S = {} THEN 0
    ELSE LET x == CHOOSE y \in S : TRUE IN f[x] + Sum(f, S \ {x})

Range(seq) == {seq[k] : k \in 1..Len(seq)}

\* get_feeds(active_only=True): the rows the query returns, in any of the
\* orders "ORDER BY priority DESC, name ASC" can put them
get_feeds ==
    LET active == {f \in FeedIds : feeds[f].present /\ feeds[f].active}
    IN  {order \in UNION {[1..n -> active] : n \in {Cardinality(active)}} :
            Range(order) = active}

\* fetch_all_feeds, up to asyncio.gather: the semaphore and one task per feed
fetch_all_feeds_start ==
    /\ pool.pc = "idle"
    /\ \E order \in get_feeds :
          pool' = IF order = <<>>
                  THEN [pool EXCEPT
                           !.pc = "returned",
                           !.summary = <<[total_feeds |-> 0, total_items_added |-> 0,
                                          successful |-> 0, failed |-> 0, results |-> 0]>>]
                  ELSE [pool EXCEPT
                           !.pc = "running",
                           !.semaphore = settings.FEED_PARALLEL_WORKERS,
                           !.order = order,
                           !.tasks = [f \in FeedIds |->
                                         IF f \in Range(order)
                                         THEN [NoTask EXCEPT !.pc = "waiting"]
                                         ELSE NoTask]]
    /\ UNCHANGED <<feeds, items, webhook_queue, settings, now, resp, drain, posts, net,
                   result, validated, skip, authVars>>

\* the tasks created before this one that have not passed the semaphore yet
waiting_before(feed_id) ==
    {g \in Range(pool.order) :
        /\ pool.tasks[g].pc = "waiting"
        /\ \E i, j \in 1..Len(pool.order) :
              pool.order[i] = g /\ pool.order[j] = feed_id /\ i < j}

\* fetch_with_semaphore, were it to start the fetch without the semaphore
fetch_with_semaphore_unbounded(feed_id) ==
    /\ pool.pc = "running"
    /\ pool.tasks[feed_id].pc = "waiting"
    /\ pool' = [pool EXCEPT !.semaphore = @ - 1, !.tasks[feed_id].pc = "get"]
    /\ UNCHANGED <<feeds, items, webhook_queue, settings, now, resp, drain, posts, net,
                   result, validated, skip, authVars>>

\* "async with semaphore": the task takes a slot; waiters are woken first come,
\* first served
fetch_with_semaphore(feed_id) ==
    /\ pool.pc = "running"
    /\ pool.tasks[feed_id].pc = "waiting"
    /\ pool.semaphore > 0
    /\ waiting_before(feed_id) = {}
    /\ pool' = [pool EXCEPT !.semaphore = @ - 1, !.tasks[feed_id].pc = "get"]
    /\ UNCHANGED <<feeds, items, webhook_queue, settings, now, resp, drain, posts, net,
                   result, validated, skip, authVars>>

\* what the servers answer during one fetch_all_feeds invocation: documents
\* whose entries carry an id the feeds share, or neither id nor link
SharedResponses ==
    {r \in FinalResponses :
        \A k \in 1..Len(r.entries) : r.entries[k].link = NULL}

\* the message fetch_single_feed records for a response it cannot use
fetch_error(response) ==
    CASE response.kind = "timeout" -> "Timeout after 30s"
      [] response.kind = "ok" -> "Parse error"
      [] OTHER -> response.kind

\* fetch_single_feed, were it to let the failure of the GET or of the parse
\* propagate into asyncio.gather
fetch_single_feed_get_raising(feed_id, response) ==
    /\ pool.pc = "running"
    /\ pool.tasks[feed_id].pc = "get"
    /\ IF response.kind # "ok" \/ (response.bozo /\ response.entries = <<>>)
       THEN /\ feeds' = feeds
            /\ pool' = [pool EXCEPT !.pc = "raised", !.semaphore = @ + 1,
                                    !.tasks[feed_id].pc = "done",
                                    !.tasks[feed_id].error = fetch_error(response)]
       ELSE /\ feeds' = feeds
            /\ pool' = [pool EXCEPT
                           !.tasks[feed_id].pc = "entries",
                           !.tasks[feed_id].entries = Take(response.entries, MAX_ITEMS_PER_FEED)]
    /\ UNCHANGED <<items, webhook_queue, settings, now, resp, drain, posts, net, result,
                   validated, skip, authVars>>

\* fetch_single_feed in its task, up to the entry loop: the GET, raise_for_status
\* and feedparser.parse; a failure is recorded and ends the task
fetch_single_feed_get(feed_id, response) ==
    /\ pool.pc = "running"
    /\ pool.tasks[feed_id].pc = "get"
    /\ IF response.kind # "ok" \/ (response.bozo /\ response.entries = <<>>)
       THEN /\ feeds' = update_feed_status(feeds, feed_id, fetch_error(response))
            /\ pool' = [pool EXCEPT !.semaphore = @ + 1,
                                    !.tasks[feed_id].pc = "done",
                                    !.tasks[feed_id].error = fetch_error(response)]
       ELSE /\ feeds' = feeds
            /\ pool' = [pool EXCEPT
                           !.tasks[feed_id].pc = "entries",
                           !.tasks[feed_id].entries = Take(response.entries, MAX_ITEMS_PER_FEED)]
    /\ UNCHANGED <<items, webhook_queue, settings, now, resp, drain, posts, net, result,
                   validated, skip, authVars>>

\* one iteration of "for entry in parsed.entries[:MAX_ITEMS_PER_FEED]"
fetch_single_feed_entry(feed_id) ==
    /\ pool.pc = "running"
    /\ pool.tasks[feed_id].pc = "entries"
    /\ pool.tasks[feed_id].entries # <<>>
    /\ LET task == pool.tasks[feed_id]
           guid == entry_guid(Head(task.entries), feed_id, task.items_processed + 1)
           inserts == add_item_inserts(items, guid)
       IN  /\ items' = add_item(items, feed_id, guid)
           /\ pool' = [pool EXCEPT
                 !.tasks[feed_id] =
                     [task EXCEPT !.entries = Tail(@),
                                  !.items_processed = @ + 1,
                                  !.item_id = IF inserts THEN Len(items) + 1 ELSE 0,
                                  !.items_added = IF inserts THEN @ + 1 ELSE @]]
    /\ UNCHANGED <<feeds, webhook_queue, settings, now, resp, drain, posts, net, result,
                   validated, skip, authVars>>

\* what the handling of an entry can raise besides the IntegrityError that
\* add_item catches: OverflowError from date_parser.parse (parse_published_date
\* catches ValueError and TypeError only), sqlite3.OperationalError from the INSERT
EntryFailures == {"Python int too large to convert to C long", "database is locked"}

\* an iteration of the entry loop raises: "except Exception" of
\* fetch_single_feed records str(e) and returns items_added 0
fetch_single_feed_entry_raises(feed_id, error_msg) ==
    /\ pool.pc = "running"
    /\ pool.tasks[feed_id].pc = "entries"
    /\ pool.tasks[feed_id].entries # <<>>
    /\ feeds' = update_feed_status(feeds, feed_id, error_msg)
    /\ pool' = [pool EXCEPT !.semaphore = @ + 1,
                            !.tasks[feed_id].pc = "done",
                            !.tasks[feed_id].items_processed = @ + 1,
                            !.tasks[feed_id].items_added = 0,
                            !.tasks[feed_id].error = error_msg]
    /\ UNCHANGED <<items, webhook_queue, settings, now, resp, drain, posts, net, result,
                   validated, skip, authVars>>

\* after the loop: update_feed_status(feed_id, now, None), return, release
fetch_single_feed_return(feed_id) ==
    /\ pool.pc = "running"
    /\ pool.tasks[feed_id].pc = "entries"
    /\ pool.tasks[feed_id].entries = <<>>
    /\ feeds' = update_feed_status(feeds, feed_id, NULL)
    /\ pool' = [pool EXCEPT !.semaphore = @ + 1, !.tasks[feed_id].pc = "done"]
    /\ UNCHANGED <<items, webhook_queue, settings, now, resp, drain, posts, net, result,
                   validated, skip, authVars>>

\* gather has every result: the summary fetch_all_feeds returns
fetch_all_feeds_return ==
    /\ pool.pc = "running"
    /\ \A f \in Range(pool.order) : pool.tasks[f].pc = "done"
    /\ LET results == Range(pool.order)
       IN  pool' = [pool EXCEPT
              !.pc = "returned",
              !.summary =
                  <<[total_feeds |-> Len(pool.order),
                     total_items_added |->
                         Sum([f \in FeedIds |-> pool.tasks[f].items_added], results),
                     successful |-> Cardinality({f \in results : pool.tasks[f].error = NULL}),
                     failed |-> Cardinality({f \in results : pool.tasks[f].error # NULL}),
                     results |-> Cardinality(results)]>>]
    /\ UNCHANGED <<feeds, items, webhook_queue, settings, now, resp, drain, posts, net,
                   result, validated, skip, authVars>>

\* ------------------------------------------------------------ summaries
\* a text cut from a summary: its first body characters, then dots "."
Text(body, dots) == [body |-> body, dots |-> dots]

NoNote == [pc |-> "feed", summary |-> Text(0, 0), description |-> Text(0, 0)]

\* len(text)
len(text) == text.body + text.dots

\* text[:n]
slice(text, n) ==
    IF n <= text.body THEN Text(n, 0)
    ELSE IF n < len(text) THEN Text(text.body, n - text.body)
    ELSE text

\* text + "..."
with_dots(text) == Text(text.body, text.dots + 3)

\* fetch_single_feed: "if len(summary) > 2000: summary = summary[:1997] + '...'",
\* and add_item stores the summary
fetch_single_feed_summary ==
    /\ note.pc = "feed"
    /\ note' = [note EXCEPT
                   !.pc = "item",
                   !.summary = IF len(@) > SummaryCap THEN with_dots(slice(@, SummaryCap - 3))
                               ELSE @]
    /\ UNCHANGED <<feeds, items, webhook_queue, settings, now, resp, drain, posts, net,
                   result, pool, validated, skip, users, sessions, auth, inflight>>

\* queue_webhook: summary_text = item['summary'][:500] + "..."
\* if len(item['summary']) > 500 else item['summary']
queue_webhook_summary_text ==
    /\ note.pc = "item"
    /\ note' = [note EXCEPT
                   !.pc = "payload",
                   !.description = IF len(note.summary) > DescriptionCap
                                   THEN with_dots(slice(note.summary, DescriptionCap))
                                   ELSE note.summary]
    /\ UNCHANGED <<feeds, items, webhook_queue, settings, now, resp, drain, posts, net,
                   result, pool, validated, skip, users, sessions, auth, inflight>>

\* ------------------------------------------------------------- accounts
UserIds == {1, 2}

Passwords == {"pw1", "pw2"}

\* bcrypt.hashpw(password, bcrypt.gensalt())
hash_password(password) == [bcrypt |-> password]

\* bcrypt.checkpw(password, hashed)
verify_password(password, hashed) == hashed = [bcrypt |-> password]

UserRow(username, role) ==
    [username |-> username, password_hash |-> hash_password("pw1"), role |-> role,
     active |-> TRUE]

\* the accounts of the deployment: an admin and an analyst
InitialUsers ==
    [u \in UserIds |-> IF u = 1 THEN UserRow("root", "admin") ELSE UserRow("alice", "analyst")]

\* None, for a user and for a token
NoUser == -1
NoToken == -1

\* the id of the pseudo-user of the legacy token, and that token; the tokens of
\* sessions are 1, 2, ... in the order secrets.token_hex produced them
LegacyUser == 0
LegacyToken == 0

Tokens == 0..MaxSessions

\* settings.SESSION_EXPIRY_HOURS, in ticks of the clock (tests/test_auth.py
\* requires the setting; config.py does not carry it)
ExpiryHours == {1}

\* login: the user of a login that is between authenticate_user and
\* create_session; token, code: the token of the latest request and the
\* status it was answered with; removed: the rows of sessions that request
\* deleted; issued: the tokens produced so far
NoAuth == [login |-> NoUser, token |-> NoToken, code |-> 0, removed |-> 0, issued |-> 0]

Answer(token, code) ==
    [auth EXCEPT !.token = token, !.code = code,
                 !.removed = Cardinality(sessions \ sessions')]

\* SELECT * FROM users WHERE username = ?
get_user_by_username(username) == {u \in UserIds : users[u].username = username}

\* authenticate_user, were it not to look at the active flag
authenticate_user_any_status(username, password) ==
    IF get_user_by_username(username) = {} THEN NoUser
    ELSE LET user == CHOOSE u \in get_user_by_username(username) : TRUE
         IN  IF ~verify_password(password, users[user].password_hash) THEN NoUser
             ELSE user

\* authenticate_user(username, password): the user, or None
authenticate_user(username, password) ==
    IF get_user_by_username(username) = {} THEN NoUser
    ELSE LET user == CHOOSE u \in get_user_by_username(username) : TRUE
         IN  IF ~users[user].active THEN NoUser
             ELSE IF ~verify_password(password, users[user].password_hash) THEN NoUser
             ELSE user

\* INSERT INTO sessions (user_id, token, expires_at, ...)
create_session(tbl, token, user_id, expiry_hours) ==
    tbl \cup {[token |-> token, user_id |-> user_id, expires_at |-> now + expiry_hours]}

\* SELECT * FROM sessions WHERE token = ?
get_session_by_token(token) == {s \in sessions : s.token = token}

\* DELETE FROM sessions WHERE token = ?
delete_session(tbl, token) == {s \in tbl : s.token # token}

\* delete_user_sessions, were it to delete the latest session of the user only
delete_user_sessions_latest(tbl, user_id) ==
    {s \in tbl : s.user_id # user_id
                 \/ \E n \in tbl : n.user_id = user_id /\ n.token > s.token}

\* DELETE FROM sessions WHERE user_id = ?
delete_user_sessions(tbl, user_id) == {s \in tbl : s.user_id # user_id}

\* get_current_user(authorization): the status it answers with, the user it
\* returns and the sessions table it leaves
get_current_user(token) ==
    IF token = NoToken
    THEN [code |-> 401, user_id |-> NoUser, role |-> NULL, sessions |-> sessions]
    ELSE IF settings.AUTH_TOKEN # NoToken /\ token = settings.AUTH_TOKEN
    THEN [code |-> 200, user_id |-> LegacyUser, role |-> "admin", sessions |-> sessions]
    ELSE IF get_session_by_token(token) = {}
    THEN [code |-> 401, user_id |-> NoUser, role |-> NULL, sessions |-> sessions]
    ELSE LET session == CHOOSE s \in get_session_by_token(token) : TRUE
         IN  IF session.expires_at < now
             THEN [code |-> 401, user_id |-> NoUser, role |-> NULL,
                   sessions |-> delete_session(sessions, token)]
             ELSE IF ~users[session.user_id].active
             THEN [code |-> 401, user_id |-> NoUser, role |-> NULL, sessions |-> sessions]
             ELSE [code |-> 200, user_id |-> session.user_id,
                   role |-> users[session.user_id].role, sessions |-> sessions]

\* require_admin: get_current_user, then 403 unless the role is admin
require_admin(token) ==
    LET user == get_current_user(token)
    IN  IF user.code = 200 /\ user.role # "admin" THEN [user EXCEPT !.code = 403]
        ELSE user

authRest == <<feeds, items, webhook_queue, settings, resp, drain, posts, net, result, pool,
              validated, skip, note, inflight>>

\* GET /api/auth/me, or any other request behind Depends(get_current_user)
get_current_user_info(token) ==
    /\ sessions' = get_current_user(token).sessions
    /\ auth' = Answer(token, get_current_user(token).code)
    /\ UNCHANGED <<users, now, authRest>>

\* POST /api/auth/login, up to the await of create_session
login(username, password) ==
    /\ auth.login = NoUser
    /\ UNCHANGED sessions
    /\ LET user == authenticate_user(username, password)
       IN  auth' = IF user = NoUser
                   THEN Answer(NoToken, 401)
                   ELSE [auth EXCEPT !.login = user]
    /\ UNCHANGED <<users, now, authRest>>

\* the rest of login: create_session(user['id'], settings.SESSION_EXPIRY_HOURS)
\* and the answer with the token
login_create_session(expiry_hours) ==
    /\ auth.login # NoUser
    /\ auth.issued < MaxSessions
    /\ sessions' = create_session(sessions, auth.issued + 1, auth.login, expiry_hours)
    /\ auth' = [Answer(auth.issued + 1, 200) EXCEPT !.login = NoUser, !.issued = @ + 1]
    /\ UNCHANGED <<users, now, authRest>>

\* POST /api/auth/logout
logout(token) ==
    LET user == get_current_user(token)
    IN  /\ sessions' = IF user.code = 200 THEN delete_session(user.sessions, token)
                       ELSE user.sessions
        /\ auth' = Answer(token, user.code)
        /\ UNCHANGED <<users, now, authRest>>

\* PUT /api/admin/users/{user_id} with a value for active
update_user_admin(token, user_id, active) ==
    LET admin == require_admin(token)
    IN  /\ users' = IF admin.code = 200 THEN [users EXCEPT ![user_id].active = active]
                    ELSE users
        /\ sessions' = IF admin.code = 200 /\ active = FALSE
                       THEN delete_user_sessions(admin.sessions, user_id)
                       ELSE admin.sessions
        /\ auth' = Answer(token, admin.code)
        /\ UNCHANGED <<now, authRest>>

\* DELETE /api/admin/users/{user_id}
deactivate_user(token, user_id) ==
    LET admin == require_admin(token)
        code == IF admin.code # 200 THEN admin.code
                ELSE IF user_id = admin.user_id THEN 400
                ELSE 200
    IN  /\ users' = IF code = 200 THEN [users EXCEPT ![user_id].active = FALSE] ELSE users
        /\ sessions' = IF code = 200 THEN delete_user_sessions(admin.sessions, user_id)
                       ELSE admin.sessions
        /\ auth' = Answer(token, code)
        /\ UNCHANGED <<now, authRest>>

\* POST /api/admin/users/{user_id}/reset-password
reset_user_password(token, user_id, new_password) ==
    LET admin == require_admin(token)
    IN  /\ users' = IF admin.code = 200
                    THEN [users EXCEPT ![user_id].password_hash = hash_password(new_password)]
                    ELSE users
        /\ sessions' = IF admin.code = 200
                       THEN delete_user_sessions(admin.sessions, user_id)
                       ELSE admin.sessions
        /\ auth' = Answer(token, admin.code)
        /\ UNCHANGED <<now, authRest>>

\* the hourly job: DELETE FROM sessions WHERE expires_at < now
cleanup_expired_sessions ==
    /\ sessions' = {s \in sessions : ~(s.expires_at < now)}
    /\ UNCHANGED <<users, auth, now, authRest>>

\* ------------------------------------------------ handlers at their awaits
\* the variables a step of a suspended handler never touches
awaitRest == <<feeds, settings, now, drain, net, result, pool, validated, skip, note,
               users, sessions, auth>>

\* triage_item, action 'alert', up to "await database.update_item_status(...)"
triage_item_update_item_status(item_id, user) ==
    /\ inflight.alert.pc = "idle"
    /\ get_item_by_id(item_id) # <<>>
    /\ Len(webhook_queue) < MaxJobs
    /\ items' = update_item_status(items, item_id, "alerted", user)
    /\ inflight' = [inflight EXCEPT
                       !.alert = [pc |-> "queue", item_id |-> item_id, user |-> user]]
    /\ UNCHANGED <<webhook_queue, posts, resp, awaitRest>>

\* queue_webhook: "item = await get_item_by_id(item_id)"; ValueError where the
\* row is not returned, which the request answers with a 500
queue_webhook_get_item_by_id ==
    /\ inflight.alert.pc = "queue"
    /\ IF get_item_by_id(inflight.alert.item_id) = <<>>
       THEN /\ inflight' = [inflight EXCEPT !.alert = NoAlert]
            /\ resp' = Response("triage", 500, 0)
       ELSE /\ inflight' = [inflight EXCEPT !.alert.pc = "insert"]
            /\ resp' = resp
    /\ UNCHANGED <<items, webhook_queue, posts, awaitRest>>

\* queue_webhook: "webhook_id = await add_to_webhook_queue(item_id, payload)",
\* and the handler's answer
queue_webhook_add_to_webhook_queue ==
    /\ inflight.alert.pc = "insert"
    /\ webhook_queue' = queue_webhook(inflight.alert.item_id, inflight.alert.user)
    /\ posts' = Append(posts, 0)
    /\ inflight' = [inflight EXCEPT !.alert = NoAlert]
    /\ resp' = Response("triage", 200, 0)
    /\ UNCHANGED <<items, awaitRest>>

\* generate_digest: "items = await get_digest_items()"
generate_digest_get_digest_items ==
    /\ inflight.digest.pc = "idle"
    /\ inflight' = [inflight EXCEPT !.digest = [pc |-> "read", items |-> get_digest_items]]
    /\ UNCHANGED <<items, webhook_queue, posts, resp, awaitRest>>

\* generate_digest, from get_stats on: the file is written, then
\* "if items: await clear_digest_items()"
generate_digest_clear_digest_items ==
    /\ inflight.digest.pc = "read"
    /\ items' = IF inflight.digest.items # {} THEN clear_digest_items ELSE items
    /\ resp' = Response("digest", 200, Cardinality(inflight.digest.items))
    /\ inflight' = [inflight EXCEPT !.digest.pc = "idle"]
    /\ UNCHANGED <<webhook_queue, posts, awaitRest>>

\* asyncio.create_task(fetch_all_feeds()) at startup or in refresh_feeds, or
\* the scheduler's interval job: the invocation up to asyncio.gather, with the
\* semaphore it creates for itself
fetch_all_feeds_create_task(run) ==
    /\ inflight.runs[run].pc = "none"
    /\ \E order \in get_feeds :
          inflight' = [inflight EXCEPT !.runs[run] =
              IF order = <<>>
              THEN [NoRun EXCEPT !.pc = "returned"]
              ELSE [pc |-> "running",
                    semaphore |-> settings.FEED_PARALLEL_WORKERS,
                    tasks |-> [f \in FeedIds |->
                                  IF f \in Range(order) THEN "waiting" ELSE "none"]]]
    /\ UNCHANGED <<items, webhook_queue, posts, resp, awaitRest>>

\* "async with semaphore" of one invocation: its task takes a slot of it
fetch_with_semaphore_enter(run, feed_id) ==
    /\ inflight.runs[run].pc = "running"
    /\ inflight.runs[run].tasks[feed_id] = "waiting"
    /\ inflight.runs[run].semaphore > 0
    /\ inflight' = [inflight EXCEPT !.runs[run].semaphore = @ - 1,
                                    !.runs[run].tasks[feed_id] = "fetching"]
    /\ UNCHANGED <<items, webhook_queue, posts, resp, awaitRest>>

\* what a server answers to such a task: a document without entries, or a failure
EmptyResponses == {r \in FinalResponses : r.entries = <<>>}

\* fetch_single_feed of the task, whole, and the release of the slot
fetch_with_semaphore_exit(run, feed_id, response) ==
    /\ inflight.runs[run].pc = "running"
    /\ inflight.runs[run].tasks[feed_id] = "fetching"
    /\ feeds' = update_feed_status(feeds, feed_id,
                    IF response.kind = "ok" /\ ~response.bozo THEN NULL
                    ELSE fetch_error(response))
    /\ inflight' = [inflight EXCEPT !.runs[run].semaphore = @ + 1,
                                    !.runs[run].tasks[feed_id] = "done"]
    /\ UNCHANGED <<items, webhook_queue, posts, resp, settings, now, drain, net, result,
                   pool, validated, skip, note, users, sessions, auth>>

\* gather has every result: the invocation returns
fetch_all_feeds_gathered(run) ==
    /\ inflight.runs[run].pc = "running"
    /\ \A f \in FeedIds : inflight.runs[run].tasks[f] \in {"none", "done"}
    /\ inflight' = [inflight EXCEPT !.runs[run] = [NoRun EXCEPT !.pc = "returned"]]
    /\ UNCHANGED <<items, webhook_queue, posts, resp, awaitRest>>

\* ------------------------------------------------------ specifications
NoResult == [feed_id |-> 0, items_added |-> 0, error |-> NULL]

NoPool == [pc |-> "idle", semaphore |-> 0, order |-> <<>>,
           tasks |-> [f \in FeedIds |-> NoTask], summary |-> <<>>]

NoCall ==
    [given |-> NoUrl, url |-> NoUrl, purpose |-> "feed", calls |-> 0, raises |-> "",
     returns |-> NoUrl]

NoSkip == [pc |-> "idle", user |-> NULL, count |-> 0, changed |-> 0]

DefaultSettings ==
    [WEBHOOK_RETRY_COUNT |-> DefaultRetryCount, WEBHOOK_URL |-> NoUrl,
     FEED_PARALLEL_WORKERS |-> DefaultWorkers, AUTH_TOKEN |-> NoToken]

FeedRow(url) ==
    [present |-> TRUE, url |-> url, active |-> TRUE,
     last_fetched |-> NoTime, last_error |-> NULL]

InitCommon ==
    /\ webhook_queue = <<>>
    /\ now = 0
    /\ resp = Response("none", 0, 0)
    /\ drain = NoDrain
    /\ posts = <<>>
    /\ net = <<>>
    /\ result = NoResult
    /\ pool = NoPool
    /\ validated = NoCall
    /\ skip = NoSkip
    /\ note = NoNote
    /\ users = InitialUsers
    /\ sessions = {}
    /\ auth = NoAuth
    /\ inflight = NoInflight

\* The triage state machine: the API handlers, ingestion and the digest job.
Init ==
    /\ InitCommon
    /\ feeds = [f \in FeedIds |-> FeedRow(PublicFeedUrl)]
    /\ items = <<>>
    /\ settings = DefaultSettings

Next ==
    \/ \E i \in 1..(MaxItems + 1), a \in RequestedActions, u \in Users :
          triage_item(i, a, u)
    \/ \E i \in 1..(MaxItems + 1), u \in Users : undo_triage(i, u)
    \/ \E u \in Users : skip_all_items(u)
    \/ generate_digest
    \/ \E f \in FeedIds : delete_feed(f)
    \/ \E f \in FeedIds, g \in Guids : fetch_entry(f, g)

Spec == Init /\ [][Next]_vars

\* The delivery queue: alerts enqueue jobs, the background loop drains them.
InitQueue ==
    /\ InitCommon
    /\ feeds = [f \in FeedIds |-> FeedRow(PublicFeedUrl)]
    /\ items = <<NewItem(1, "g1")>>
    /\ settings \in [WEBHOOK_RETRY_COUNT : 1..MaxRetry,
                     WEBHOOK_URL : {NoUrl, HookUrl, PrivateHookUrl},
                     FEED_PARALLEL_WORKERS : {DefaultWorkers},
                     AUTH_TOKEN : {NoToken}]

NextQueue ==
    \/ triage_item(1, "alert", "alice")
    \/ undo_triage(1, "alice")
    \/ process_webhook_queue_start
    \/ \E o \in DeliveryOutcomes : process_webhook_queue_send(o)
    \/ process_webhook_queue_retry
    \/ process_webhook_queue_return
    \/ Tick

SpecQueue == InitQueue /\ [][NextQueue]_vars

\* the steps of the delivery task
DrainStep ==
    \/ process_webhook_queue_start
    \/ \E o \in DeliveryOutcomes : process_webhook_queue_send(o)
    \/ process_webhook_queue_retry
    \/ process_webhook_queue_return

\* The event loop runs the delivery task: its sleeps end, and the POST and the
\* database calls it awaits return (the POST has a timeout).
SpecQueueFair == SpecQueue /\ WF_vars(DrainStep)

QueueRow(status, attempts, error_message) ==
    [item_id |-> 1, payload |-> [item |-> 1, triaged_by |-> "alice"],
     attempts |-> attempts, last_attempt |-> IF attempts = 0 THEN NoTime ELSE 0,
     status |-> status, error_message |-> error_message]

\* The background loop with drain cycles that can raise, over the job of one
\* alert, until shutdown.
InitLoop ==
    /\ now = 0
    /\ resp = Response("none", 0, 0)
    /\ drain = NoDrain
    /\ net = <<>>
    /\ result = NoResult
    /\ pool = NoPool
    /\ validated = NoCall
    /\ skip = NoSkip
    /\ note = NoNote
    /\ users = InitialUsers
    /\ sessions = {}
    /\ auth = NoAuth
    /\ inflight = NoInflight
    /\ feeds = [f \in FeedIds |-> FeedRow(PublicFeedUrl)]
    /\ items = <<[NewItem(1, "g1") EXCEPT !.status = "alerted", !.triaged_at = 0,
                                         !.triaged_by = "alice"]>>
    /\ settings \in {[DefaultSettings EXCEPT !.WEBHOOK_URL = u] : u \in {NoUrl, HookUrl}}
    /\ webhook_queue = <<QueueRow("pending", 0, NULL)>>
    /\ posts = <<0>>

NextLoop ==
    \/ process_webhook_queue_start
    \/ \E o \in DeliveryOutcomes : process_webhook_queue_send(o)
    \/ process_webhook_queue_retry
    \/ process_webhook_queue_return
    \/ process_webhook_queue_raises
    \/ process_webhooks_background_cancel

SpecLoop == InitLoop /\ [][NextLoop]_vars

\* The event loop runs the delivery task until it is cancelled: every sleep
\* and every await of it ends, by returning or by raising.
SpecLoopFair == SpecLoop /\ WF_vars(DrainStep \/ process_webhook_queue_raises)

\* The feed fetcher: per-feed tasks against servers that answer anything.
InitFetch ==
    /\ InitCommon
    /\ feeds \in [FeedIds -> {FeedRow(PublicFeedUrl), FeedRow(PrivateFeedUrl)}]
    /\ items = <<>>
    /\ settings = DefaultSettings

NextFetch ==
    \E f \in FeedIds, rs \in RedirectChains, r \in FinalResponses :
          fetch_single_feed(f, rs, r)

SpecFetch == InitFetch /\ [][NextFetch]_vars

\* The delivery loop over the queue an earlier run of the service left: jobs
\* for an item alerted again and again, one of them already tried.
TriedRows ==
    {[status |-> "sent", attempts |-> 1, error_message |-> NULL],
     [status |-> "pending", attempts |-> 2, error_message |-> "connection error"]}

InitBatch ==
    /\ now = 0
    /\ resp = Response("none", 0, 0)
    /\ drain = NoDrain
    /\ net = <<>>
    /\ result = NoResult
    /\ pool = NoPool
    /\ validated = NoCall
    /\ skip = NoSkip
    /\ note = NoNote
    /\ users = InitialUsers
    /\ sessions = {}
    /\ auth = NoAuth
    /\ inflight = NoInflight
    /\ feeds = [f \in FeedIds |-> FeedRow(PublicFeedUrl)]
    /\ items = <<[NewItem(1, "g1") EXCEPT !.status = "alerted", !.triaged_at = 0,
                                         !.triaged_by = "alice"]>>
    /\ settings \in {[DefaultSettings EXCEPT !.WEBHOOK_RETRY_COUNT = m] :
                        m \in {1, DefaultRetryCount}}
    /\ \E n \in 0..MaxBatch, k \in 0..MaxBatch, tried \in TriedRows :
          /\ k <= n
          /\ webhook_queue =
                [j \in 1..n |->
                    IF j = k
                    THEN QueueRow(tried.status, tried.attempts, tried.error_message)
                    ELSE QueueRow("pending", 0, NULL)]
          /\ posts = [j \in 1..n |-> IF j = k THEN tried.attempts ELSE 0]

NextBatch ==
    \/ process_webhook_queue_start
    \/ \E o \in DeliveryOutcomes : process_webhook_queue_send(o)
    \/ process_webhook_queue_retry
    \/ process_webhook_queue_return

SpecBatch == InitBatch /\ [][NextBatch]_vars

\* The summary of one entry, from the feed document to the notification payload.
InitPayload ==
    /\ webhook_queue = <<>>
    /\ now = 0
    /\ resp = Response("none", 0, 0)
    /\ drain = NoDrain
    /\ posts = <<>>
    /\ net = <<>>
    /\ result = NoResult
    /\ pool = NoPool
    /\ validated = NoCall
    /\ skip = NoSkip
    /\ users = InitialUsers
    /\ sessions = {}
    /\ auth = NoAuth
    /\ inflight = NoInflight
    /\ feeds = [f \in FeedIds |-> FeedRow(PublicFeedUrl)]
    /\ items = <<>>
    /\ settings = DefaultSettings
    /\ note \in {[NoNote EXCEPT !.summary = Text(n, 0)] : n \in 0..MaxSummary}

NextPayload ==
    \/ fetch_single_feed_summary
    \/ queue_webhook_summary_text

SpecPayload == InitPayload /\ [][NextPayload]_vars

\* Accounts and sessions: logins, requests with a token, the admin's user
\* management (a reset sets the password the user had) and the clock.
InitAuth ==
    /\ InitCommon
    /\ feeds = [f \in FeedIds |-> FeedRow(PublicFeedUrl)]
    /\ items = <<>>
    /\ settings = DefaultSettings

NextAuth ==
    \/ \E u \in {"root", "alice", "nobody"}, p \in Passwords : login(u, p)
    \/ \E h \in ExpiryHours : login_create_session(h)
    \/ \E k \in Tokens \cup {NoToken} : get_current_user_info(k)
    \/ \E k \in Tokens : logout(k)
    \/ \E k \in Tokens, u \in UserIds, a \in BOOLEAN : update_user_admin(k, u, a)
    \/ \E k \in Tokens, u \in UserIds : deactivate_user(k, u)
    \/ \E k \in Tokens, u \in UserIds : reset_user_password(k, u, "pw1")
    \/ cleanup_expired_sessions
    \/ Tick

SpecAuth == InitAuth /\ [][NextAuth]_vars

\* Skip-all next to ingestion and triage: the requests interleave at the
\* awaits of skip_all_pending.
InitSkip == Init

NextSkip ==
    \/ \E u \in Users : skip_all_pending_count(u)
    \/ skip_all_pending_update
    \/ \E i \in 1..MaxItems, a \in TriageActions, u \in Users : triage_item(i, a, u)
    \/ \E f \in FeedIds, g \in Guids : fetch_entry(f, g)

SpecSkip == InitSkip /\ [][NextSkip]_vars

\* The URL validator: any string, validated and validated again.
InitValidate ==
    /\ webhook_queue = <<>>
    /\ now = 0
    /\ resp = Response("none", 0, 0)
    /\ drain = NoDrain
    /\ posts = <<>>
    /\ net = <<>>
    /\ result = NoResult
    /\ pool = NoPool
    /\ skip = NoSkip
    /\ note = NoNote
    /\ users = InitialUsers
    /\ sessions = {}
    /\ auth = NoAuth
    /\ inflight = NoInflight
    /\ feeds = [f \in FeedIds |-> FeedRow(PublicFeedUrl)]
    /\ items = <<>>
    /\ settings = DefaultSettings
    /\ validated \in {[NoCall EXCEPT !.given = u, !.url = u, !.purpose = p] : u \in Urls, p \in Purposes}

NextValidate ==
    \/ validate_url_call
    \/ validate_url_again

SpecValidate == InitValidate /\ [][NextValidate]_vars

\* One fetch_all_feeds invocation: the per-feed tasks run interleaved at their
\* awaits, behind the semaphore.
InactiveFeedRow == [FeedRow(PublicFeedUrl) EXCEPT !.active = FALSE]

InitFetchAll ==
    /\ InitCommon
    /\ feeds \in [FeedIds -> {FeedRow(PublicFeedUrl), InactiveFeedRow}]
    /\ items \in {<<>>, <<NewItem(1, "g1")>>}
    /\ settings \in {[DefaultSettings EXCEPT !.FEED_PARALLEL_WORKERS = w] :
                        w \in 1..MaxWorkers}

NextFetchAll ==
    \/ fetch_all_feeds_start
    \/ \E f \in FeedIds : fetch_with_semaphore(f)
    \/ \E f \in FeedIds, r \in SharedResponses : fetch_single_feed_get(f, r)
    \/ \E f \in FeedIds : fetch_single_feed_entry(f)
    \/ \E f \in FeedIds : fetch_single_feed_return(f)
    \/ fetch_all_feeds_return

SpecFetchAll == InitFetchAll /\ [][NextFetchAll]_vars

\* The event loop runs every task that can take a step, and every await of a
\* task ends (the GET has a timeout).
SpecFetchAllFair == SpecFetchAll /\ WF_vars(NextFetchAll)

\* Ingestion next to triage: a fetch_all_feeds invocation over a table that
\* holds an item triaged earlier, while the first item is triaged and restored.
TriagedItem(status) ==
    [NewItem(1, "g1") EXCEPT !.status = status, !.triaged_at = 0, !.triaged_by = "alice"]

InitIngest ==
    /\ InitCommon
    /\ feeds = [f \in FeedIds |-> FeedRow(PublicFeedUrl)]
    /\ items \in {<<TriagedItem(st)>> : st \in {"alerted", "archived"}}
    /\ settings = DefaultSettings

NextIngest ==
    \/ NextFetchAll
    \/ \E f \in FeedIds, e \in EntryFailures : fetch_single_feed_entry_raises(f, e)
    \/ \E a \in {"digest", "skip"}, u \in Users : triage_item(1, a, u)
    \/ \E u \in Users : undo_triage(1, u)

SpecIngest == InitIngest /\ [][NextIngest]_vars

\* Overlapping fetch_all_feeds invocations: the initial fetch, the interval
\* job and on-demand refreshes.
InitOverlap ==
    /\ InitCommon
    /\ feeds \in [FeedIds -> {FeedRow(PublicFeedUrl), InactiveFeedRow}]
    /\ items = <<>>
    /\ settings \in {[DefaultSettings EXCEPT !.FEED_PARALLEL_WORKERS = w] :
                        w \in 1..MaxWorkers}

NextOverlap ==
    \/ \E r \in 1..MaxRuns : fetch_all_feeds_create_task(r)
    \/ \E r \in 1..MaxRuns, f \in FeedIds : fetch_with_semaphore_enter(r, f)
    \/ \E r \in 1..MaxRuns, f \in FeedIds, response \in EmptyResponses :
          fetch_with_semaphore_exit(r, f, response)
    \/ \E r \in 1..MaxRuns : fetch_all_feeds_gathered(r)

SpecOverlap == InitOverlap /\ [][NextOverlap]_vars

\* Drain cycles over the jobs of an item that is alerted, restored and alerted
\* again, with an endpoint configured that answers, fails or times out.
InitCycle ==
    /\ InitCommon
    /\ feeds = [f \in FeedIds |-> FeedRow(PublicFeedUrl)]
    /\ items = <<NewItem(1, "g1")>>
    /\ settings \in {[DefaultSettings EXCEPT !.WEBHOOK_URL = HookUrl,
                                              !.WEBHOOK_RETRY_COUNT = m] :
                        m \in {1, DefaultRetryCount}}

NextCycle ==
    \/ DrainStep
    \/ triage_item(1, "alert", "alice")
    \/ undo_triage(1, "alice")

SpecCycle == InitCycle /\ [][NextCycle]_vars

\* Alert requests step by step, next to undo and feed deletion requests.
InitAlert ==
    /\ InitCommon
    /\ feeds = [f \in FeedIds |-> FeedRow(PublicFeedUrl)]
    /\ items = <<NewItem(1, "g1"), NewItem(2, "g2")>>
    /\ settings = DefaultSettings

NextAlert ==
    \/ \E i \in 1..Len(items), u \in Users : triage_item_update_item_status(i, u)
    \/ queue_webhook_get_item_by_id
    \/ queue_webhook_add_to_webhook_queue
    \/ \E i \in 1..Len(items), u \in Users : undo_triage(i, u)
    \/ \E f \in FeedIds : delete_feed(f)

SpecAlert == InitAlert /\ [][NextAlert]_vars

\* Digest runs step by step, next to the triage and undo requests.
InitDigest ==
    /\ InitCommon
    /\ feeds = [f \in FeedIds |-> FeedRow(PublicFeedUrl)]
    /\ items = <<NewItem(1, "g1"), NewItem(2, "g2")>>
    /\ settings = DefaultSettings

NextDigest ==
    \/ generate_digest_get_digest_items
    \/ generate_digest_clear_digest_items
    \/ \E i \in 1..Len(items), a \in TriageActions \ {"alert"}, u \in Users :
          triage_item(i, a, u)
    \/ \E i \in 1..Len(items), u \in Users : undo_triage(i, u)

SpecDigest == InitDigest /\ [][NextDigest]_vars

\* ---------------------------------------------------------------- claims
ItemIdsAsked == 1..(MaxItems + 1)

Found(item_id) == get_item_by_id(item_id) # <<>>

StatusOf(item_id) == get_item_by_id(item_id)[1].status

LegalTransitions ==
    {<<"pending", "alerted">>, <<"pending", "digested">>, <<"pending", "skipped">>,
     <<"alerted", "pending">>, <<"digested", "pending">>, <<"skipped", "pending">>,
     <<"digested", "archived">>}

\* C1: every change of an item's status is one of the legal transitions:
\* pending -> alerted | digested | skipped, alerted | digested | skipped -> pending,
\* digested -> archived.
C1_OnlyLegalTransitions ==
    [][\A i \in 1..Len(items) :
          items'[i].status # items[i].status
          => <<items[i].status, items'[i].status>> \in LegalTransitions]_vars

\* C2: a triage request (alert, digest, skip) on an item that is not pending
\* leaves the item's status and attribution unchanged and enqueues no job.
C2_TriageOfNonPendingRejected ==
    [][\A i \in ItemIdsAsked, a \in TriageActions, u \in Users :
          (Found(i) /\ StatusOf(i) # "pending" /\ triage_item(i, a, u))
          => (items' = items /\ webhook_queue' = webhook_queue)]_vars

\* C3: an undo request on a pending item is rejected with an error (400) and an
\* undo on an item that does not exist is rejected (404); either leaves every
\* item's status, triaged timestamp and triaged-by, and the queue, unchanged.
C3_UndoRejected ==
    [][\A i \in ItemIdsAsked, u \in Users :
          undo_triage(i, u)
          => /\ ~Found(i) => (resp'.code = 404 /\ items' = items
                              /\ webhook_queue' = webhook_queue)
             /\ (Found(i) /\ StatusOf(i) = "pending")
                   => (resp'.code = 400 /\ items' = items
                       /\ webhook_queue' = webhook_queue)]_vars

\* C3 witness: an undo was just rejected with 400 while an item that had been
\* triaged and undone before is pending.
C3_Witness ==
    /\ resp = Response("undo", 400, 0)
    /\ \E i \in 1..Len(items) :
          items[i].status = "pending" /\ items[i].triaged_at # NoTime

Configured == settings.WEBHOOK_URL # NoUrl

\* C5: with an endpoint that fails every time, a job is failed once M =
\* WEBHOOK_RETRY_COUNT attempts have failed, and after fewer it is pending and
\* among the jobs the next drain cycle selects (seen between the iterations of
\* the drain loop).
C5_FailedAfterMaxAttempts ==
    \A j \in 1..Len(webhook_queue) :
        (drain.pc # "sent" /\ Configured /\ webhook_queue[j].status # "sent")
        => IF posts[j] >= settings.WEBHOOK_RETRY_COUNT
           THEN webhook_queue[j].status = "failed"
           ELSE /\ webhook_queue[j].status = "pending"
                /\ \E k \in 1..Len(get_pending_webhooks(DrainBatchLimit)) :
                      get_pending_webhooks(DrainBatchLimit)[k] = j

\* C6: a job's attempt count equals the number of delivery attempts (POSTs)
\* made for it.
C6_AttemptsCountDeliveries ==
    Configured => \A j \in 1..Len(webhook_queue) : webhook_queue[j].attempts = posts[j]

\* C7: what a drain cycle selects, whenever one can start, is exactly the jobs
\* that are pending with an attempt count below WEBHOOK_RETRY_COUNT, oldest
\* first, up to the batch limit.
C7_SelectsExactlyEligible ==
    drain.pc = "idle"
    => get_pending_webhooks(DrainBatchLimit)
          = Take(InOrder({j \in 1..Len(webhook_queue) :
                             /\ webhook_queue[j].status = "pending"
                             /\ webhook_queue[j].attempts < settings.WEBHOOK_RETRY_COUNT}),
                 DrainBatchLimit)

\* C8: in a delivery attempt every POST comes after a validation of the URL it
\* goes to, and no POST is issued to an endpoint the validator rejects.
C8_PostAfterValidation ==
    \A k \in 1..Len(net) :
        net[k].op = "POST"
        => /\ \E v \in 1..(k - 1) : net[v].op = "validate" /\ net[v].url = net[k].url
           /\ validate_url(net[k].url, "webhook") = ""

\* C9: a per-feed task validates the feed URL before its GET; for a URL the
\* validator rejects it issues no GET, records the feed's last error and
\* ends as a failure.
C9_FetchValidatesFeedUrl ==
    result.feed_id # 0
    => /\ \A k \in 1..Len(net) :
             net[k].op = "GET"
             => \E v \in 1..(k - 1) : net[v].op = "validate" /\ net[v].url = net[k].url
       /\ validate_url(feeds[result.feed_id].url, "feed") # ""
             => /\ \A k \in 1..Len(net) : net[k].op # "GET"
                /\ result.error # NULL
                /\ feeds[result.feed_id].last_error # NULL

\* C10: the only request a per-feed task issues is the GET to the configured
\* feed URL; no request goes to a redirect target.
C10_NoRedirectFollowed ==
    result.feed_id # 0
    => \A k \in 1..Len(net) : net[k].op = "GET" => net[k].url = feeds[result.feed_id].url
executing == {f \in FeedIds : pool.tasks[f].pc \in {"get", "entries"}}

\* C11: during a fetch_all_feeds invocation the tasks past the semaphore and
\* not yet finished never number more than FEED_PARALLEL_WORKERS, the slots
\* taken and free add up to it, and every waiting task gets past the semaphore.
C11_WorkerPoolBounded ==
    /\ [](pool.pc = "running"
            => /\ Cardinality(executing) <= settings.FEED_PARALLEL_WORKERS
               /\ pool.semaphore + Cardinality(executing) = settings.FEED_PARALLEL_WORKERS)
    /\ \A f \in FeedIds :
          (pool.tasks[f].pc = "waiting") ~> (pool.tasks[f].pc \in {"get", "entries", "done"})

\* C11 witness: every slot is taken and a task is waiting for one.
C11_Witness ==
    /\ pool.pc = "running"
    /\ Cardinality(executing) = settings.FEED_PARALLEL_WORKERS
    /\ \E f \in FeedIds : pool.tasks[f].pc = "waiting"

failing(response) == response.kind # "ok" \/ (response.bozo /\ response.entries = <<>>)

\* C12: a timeout, transport error, HTTP error or parse failure of one feed
\* ends that task only: the step changes no item and no other task and the
\* aggregate keeps running; every entry step of a task leaves its guid in the
\* items table; fetch_all_feeds returns, and its summary has one result per
\* active feed with successful + failed = total_feeds.
C12_FeedFailureIsolated ==
    /\ [][\A f \in FeedIds :
             /\ (\E r \in SharedResponses : failing(r) /\ fetch_single_feed_get(f, r))
                   => /\ items' = items
                      /\ pool'.pc = "running"
                      /\ pool'.tasks[f].pc = "done" /\ pool'.tasks[f].error # NULL
                      /\ feeds'[f].last_error # NULL
                      /\ \A g \in FeedIds \ {f} :
                            pool'.tasks[g] = pool.tasks[g] /\ feeds'[g] = feeds[g]
             /\ fetch_single_feed_entry(f)
                   => /\ \E i \in 1..Len(items') :
                            items'[i].guid = entry_guid(Head(pool.tasks[f].entries), f,
                                                        pool.tasks[f].items_processed + 1)
                      /\ SubSeq(items', 1, Len(items)) = items]_vars
    /\ [](pool.pc = "returned"
            => LET summary == pool.summary[1]
                   active == {f \in FeedIds : feeds[f].present /\ feeds[f].active}
               IN  /\ summary.total_feeds = Cardinality(active)
                   /\ summary.results = summary.total_feeds
                   /\ summary.successful + summary.failed = summary.total_feeds
                   /\ \A f \in active : pool.tasks[f].pc = "done"
                   /\ summary.failed
                         = Cardinality({f \in active : feeds[f].last_error # NULL}))
    /\ <>(pool.pc = "returned")

\* C12 witness: fetch_all_feeds has returned with one feed failed and the
\* other's items added.
C12_Witness ==
    /\ pool.pc = "returned"
    /\ pool.summary[1].failed = 1
    /\ pool.summary[1].successful = 1
    /\ pool.summary[1].total_items_added >= 1

\* C13: no two items share a guid; an entry whose guid is already in the items
\* table (put there earlier, by another feed or by a task running at the same
\* time) adds no row and changes none, add_item returns None, items_added is
\* not incremented, and the task goes on without an error.
C13_GuidUnique ==
    /\ [](\A i, j \in 1..Len(items) : items[i].guid = items[j].guid => i = j)
    /\ [][\A f \in FeedIds :
             (/\ fetch_single_feed_entry(f)
              /\ \E i \in 1..Len(items) :
                    items[i].guid = entry_guid(Head(pool.tasks[f].entries), f,
                                               pool.tasks[f].items_processed + 1))
             => /\ items' = items
                /\ pool'.tasks[f].item_id = 0
                /\ pool'.tasks[f].items_added = pool.tasks[f].items_added
                /\ pool'.tasks[f].pc = "entries"
                /\ pool'.tasks[f].error = NULL]_vars

\* C13 witness: a task's add_item has just returned None for a guid that an
\* item of another feed carries, while the other feed's task is still running.
C13_Witness ==
    \E f, g \in FeedIds :
        /\ f # g
        /\ pool.tasks[f].item_id = 0
        /\ pool.tasks[f].items_added = 0
        /\ pool.tasks[g].pc = "entries"
        /\ pool.tasks[g].items_added > 0
        /\ \A i \in 1..Len(items) : items[i].feed_id = g

\* the address ranges the validator is to refuse
RefusedRanges ==
    {"private", "loopback", "link_local", "multicast", "reserved", "unspecified"}

\* what the URL handed to the call names: its scheme and hostname
CallScheme == lower(validated.url.scheme)

CallHost == IF validated.url.host = ":80" THEN "" ELSE lower(validated.url.host)

\* C14: a call of validate_url on a URL whose hostname resolves to an address
\* in a refused range raises, whatever the scheme and the purpose; and a call
\* returns only for an http or https URL with a hostname that is not a
\* loopback alias and resolves to no address in a refused range.
C14_RefusesInternalAddresses ==
    (validated.calls >= 1 /\ validated.url # NoUrl)
    => /\ (getaddrinfo(CallHost).addrs \cap RefusedRanges # {}) => validated.raises # ""
       /\ validated.raises = ""
             => /\ CallScheme \in {"http", "https"}
                /\ CallHost # ""
                /\ CallHost \notin localhost_names
                /\ getaddrinfo(CallHost).addrs \cap RefusedRanges = {}

\* C14 witness: a call on an http URL whose hostname resolves to a public and
\* a private address was refused for the address.
C14_Witness ==
    /\ validated.calls = 1
    /\ CallScheme = "http"
    /\ CallHost = "rebind.example"
    /\ validated.raises = "private"

\* the rule a URL string violates first, in the order empty or not a string,
\* scheme, hostname, loopback alias, resolution ("" where it violates none)
FirstRuleViolated(url) ==
    IF url = NoUrl \/ url = EmptyUrl THEN "empty"
    ELSE IF lower(url.scheme) \notin {"http", "https"} THEN "scheme"
    ELSE IF url.host \in {"", ":80"} THEN "hostname"
    ELSE IF lower(url.host) \in localhost_names THEN "localhost"
    ELSE IF getaddrinfo(lower(url.host)).raises = "gaierror" THEN "resolve"
    ELSE IF getaddrinfo(lower(url.host)).addrs \cap RefusedRanges # {} THEN "private"
    ELSE ""

C16_ReturnsTrimmedAndIdempotent ==
    /\ (validated.calls >= 1 /\ validated.raises = "")
          => /\ validated.returns.lead = 0 /\ validated.returns.trail = 0
             /\ validated.returns.scheme = validated.url.scheme
             /\ validated.returns.host = validated.url.host
             /\ validated.returns.scheme = validated.given.scheme
             /\ validated.returns.host = validated.given.host
    /\ validated.calls >= 2
          => /\ validated.raises = ""
             /\ validated.returns = validated.url

\* C16 witness: a URL written with capitals and with whitespace on both sides
\* was validated, and what came back was validated again.
C16_Witness ==
    /\ validated.calls = 2
    /\ validated.given.lead > 0 /\ validated.given.trail > 0
    /\ validated.given.scheme = "HTTP" /\ validated.given.host = "Feeds.Example"
    /\ validated.raises = ""
    /\ validated.returns = Url("HTTP", "Feeds.Example")

\* C17: the count a skip-all request returns is the number of items its
\* UPDATE changed from pending to skipped, whatever ingestion and triage
\* requests run next to it.
C17_SkipAllCountExact ==
    skip.pc = "idle" => skip.count = skip.changed

\* C18: with no WEBHOOK_URL configured, every job a drain cycle picked up is
\* skipped when the cycle ends, whatever WEBHOOK_RETRY_COUNT is and however
\* often the job was tried before, and no POST was issued in the cycle.
C18_SkippedWhenNoEndpoint ==
    (~Configured /\ drain.pc = "idle")
    => /\ \A k \in 1..Len(drain.done) : webhook_queue[drain.done[k]].status = "skipped"
       /\ \A k \in 1..Len(net) : net[k].op # "POST"

TerminalStatuses == {"sent", "skipped", "failed"}

\* C19: once a job is sent, skipped or failed, no step changes its status or
\* its attempt count, and no POST is issued for it.
C19_TerminalStatusesFinal ==
    [][\A j \in 1..Len(webhook_queue) :
          webhook_queue[j].status \in TerminalStatuses
          => /\ webhook_queue'[j].status = webhook_queue[j].status
             /\ webhook_queue'[j].attempts = webhook_queue[j].attempts
             /\ posts'[j] = posts[j]]_vars

\* the jobs the query of a drain cycle can select
Eligible(j) ==
    webhook_queue[j].status = "pending" /\ webhook_queue[j].attempts < SqlAttemptLimit

\* the jobs of the running cycle, in the order they are attempted
CycleOrder ==
    drain.done \o [k \in 1..(Len(drain.pending) - (IF drain.pc = "sent" THEN 1 ELSE 0)) |->
                      drain.pending[k + (IF drain.pc = "sent" THEN 1 ELSE 0)].id]

C22_DeleteFeedCascades ==
    [][\A f \in FeedIds :
          (feeds[f].present /\ delete_feed(f))
          => /\ \A i \in 1..Len(items') : items'[i].feed_id # f
             /\ \A j \in 1..Len(webhook_queue') :
                   items[webhook_queue'[j].item_id].feed_id # f
             /\ \A i \in 1..Len(items) :
                   items[i].feed_id # f => \E k \in 1..Len(items') : items'[k] = items[i]]_vars

\* C23: an archived item keeps the status archived in every step, and no step
\* deletes an item.
C23_ArchivedIsTerminal ==
    [][/\ Len(items') >= Len(items)
       /\ \A i \in 1..Len(items) :
             items[i].status = "archived"
             => i <= Len(items') /\ items'[i].status = "archived"]_vars

\* C24: in every reachable state an item has at most one job in status pending.
C24_OnePendingJobPerItem ==
    \A i \in 1..Len(items) :
       Cardinality({j \in 1..Len(webhook_queue) :
                       /\ webhook_queue[j].item_id = i
                       /\ webhook_queue[j].status = "pending"}) <= 1

\* C21: an exception of a drain cycle does not end the delivery loop: the step
\* in which a cycle raises leaves the loop asleep for the idle interval, and
\* after every raising cycle a further cycle begins, unless the task is
\* cancelled.
C21_LoopSurvivesExceptions ==
    /\ [][process_webhook_queue_raises
          => drain'.pc = "idle" /\ drain'.idle = IdleInterval]_vars
    /\ \A r \in {1, 2} :
          (drain.raised = r) ~> (drain.raised # r \/ drain.pc = "cancelled")

\* C21 witness: a cycle raised after its POST, the loop slept, and the next
\* cycle is sending the same job again.
C21_Witness ==
    /\ drain.pc = "sent"
    /\ drain.raised = 0
    /\ \E j \in 1..Len(webhook_queue) : posts[j] > webhook_queue[j].attempts

\* C29: a delivery attempt on a job with attempt count a makes no outbound
\* call when no endpoint is configured; otherwise it POSTs once, after a sleep
\* of 2^(a-1) seconds when a > 0 and without any sleep when a = 0.
C29_BackoffBeforePost ==
    drain.pc = "sent"
    => LET a == Head(drain.pending).attempts
           POST == [op |-> "POST", url |-> settings.WEBHOOK_URL, secs |-> 0]
           wait == [op |-> "sleep", url |-> NoUrl, secs |-> 2^(a - 1)]
       IN  net = IF ~Configured THEN <<>>
                 ELSE IF a = 0 THEN <<POST>>
                 ELSE <<wait, POST>>

\* C29 witness: the third attempt on a job has slept two seconds and POSTed.
C29_Witness ==
    /\ drain.pc = "sent"
    /\ Head(drain.pending).attempts = 2
    /\ Len(net) = 2
    /\ net[1].op = "sleep" /\ net[1].secs = 2
    /\ net[2].op = "POST"

\* C30: with an endpoint configured, a delivery attempt stores the message of
\* its own failure in the job, or clears the stored message when it succeeds,
\* and the rest of the iteration, the retry check that may make the job
\* failed, leaves that message in place.
C30_LastErrorIsAttemptError ==
    [][Configured
       => /\ \A o \in DeliveryOutcomes :
                process_webhook_queue_send(o)
                => webhook_queue'[Head(drain.pending).id].error_message
                      = IF o = "ok" THEN NULL ELSE ErrorMessage(o)
          /\ process_webhook_queue_retry
             => webhook_queue'[Head(drain.pending).id].error_message
                   = webhook_queue[Head(drain.pending).id].error_message]_vars

\* C28: for every configured maximum, a job in the queue eventually has the
\* status sent, skipped or failed, as long as the delivery loop keeps running.
C28_EveryJobSettles ==
    \A j \in 1..MaxJobs :
       (j <= Len(webhook_queue))
       ~> (j <= Len(webhook_queue) /\ webhook_queue[j].status \in TerminalStatuses)

\* C25: the summary text of a notification payload has at most 500 characters,
\* truncation marker included, for every stored summary of 0 to 2000
\* characters, and a stored summary of at most 500 characters is carried as
\* it is.
C25_PayloadSummaryCapped ==
    (note.pc = "payload" /\ note.summary.body + note.summary.dots <= 2000)
    => /\ note.description.body + note.description.dots <= 500
       /\ note.summary.body + note.summary.dots <= 500 => note.description = note.summary

\* C26: authenticate_user returns no user for an inactive account, whatever
\* the password; a login for an inactive account is answered 401 and creates
\* nothing; and a request that presents the unexpired session token of an
\* inactive user is answered 401.
C26_InactiveUserRejected ==
    /\ [](\A u \in UserIds :
             ~users[u].active
             => \A p \in Passwords : authenticate_user(users[u].username, p) = NoUser)
    /\ [][\A u \in UserIds, p \in Passwords :
             (~users[u].active /\ login(users[u].username, p))
             => auth'.code = 401 /\ auth'.login = NoUser /\ sessions' = sessions]_vars
    /\ [][\A k \in Tokens :
             (/\ \E s \in sessions :
                    s.token = k /\ s.expires_at >= now /\ ~users[s.user_id].active
              /\ get_current_user_info(k) \/ logout(k))
             => auth'.code = 401]_vars

\* C26 witness: a session of a deactivated user is in the table, unexpired, and
\* the request that presented its token was answered 401.
C26_Witness ==
    \E s \in sessions :
       /\ ~users[s.user_id].active
       /\ s.expires_at >= now
       /\ auth.token = s.token
       /\ auth.code = 401

\* the rows of a sessions table with the given token, of the given user
WithToken(tbl, token) == {s \in tbl : s.token = token}

OfUser(tbl, user_id) == {s \in tbl : s.user_id = user_id}

\* C27: a successful logout removes the session of its token and no other; a
\* successful deactivation or password reset of a user removes all sessions of
\* that user and no other; a token without a session is answered 401 and never
\* gets a session again; and a request that presents an expired session is
\* answered 401 and removes that session.
C27_DeletedSessionsDoNotResolve ==
    /\ [][\A k \in Tokens :
             (auth'.token = k /\ auth'.code = 200 /\ logout(k))
             => /\ WithToken(sessions', k) = {}
                /\ sessions' \ WithToken(sessions', k) = sessions \ WithToken(sessions, k)]_vars
    /\ [][\A k \in Tokens, u \in UserIds :
             (/\ auth'.token = k /\ auth'.code = 200
              /\ \/ deactivate_user(k, u)
                 \/ update_user_admin(k, u, FALSE)
                 \/ \E p \in Passwords : reset_user_password(k, u, p))
             => /\ OfUser(sessions', u) = {}
                /\ sessions' \ OfUser(sessions', u) = sessions \ OfUser(sessions, u)]_vars
    /\ [][\A k \in 1..MaxSessions :
             WithToken(sessions, k) = {}
             => /\ (auth'.token = k /\ (get_current_user_info(k) \/ logout(k)))
                   => auth'.code = 401
                /\ k <= auth.issued => WithToken(sessions', k) = {}]_vars
    /\ [][\A k \in 1..MaxSessions :
             (/\ auth'.token = k
              /\ \E s \in sessions : s.token = k /\ s.expires_at < now
              /\ get_current_user_info(k) \/ logout(k))
             => auth'.code = 401 /\ WithToken(sessions', k) = {}]_vars

\* C27 witness: a request of an admin has just deleted the two sessions a user
\* had.
C27_Witness ==
    /\ auth.code = 200
    /\ auth.removed = 2
    /\ sessions = {}
    /\ auth.issued = 2


\* the jobs of the cycle just ended that now have the given status
DoneWith(status) ==
    {k \in 1..Len(drain.done) : webhook_queue[drain.done[k]].status = status}

\* C32: the summary a drain cycle returns agrees with the job states the cycle
\* leaves: processed = successful + failed + retry_pending, successful counts
\* the cycle's jobs now sent, failed those now failed, and retry_pending those
\* still pending, so that a job marked skipped is in neither of the last two.
C32_SummaryMatchesJobStates ==
    (drain.pc = "idle" /\ drain.done # <<>>)
    => /\ drain.summary.processed
             = drain.summary.successful + drain.summary.failed
               + drain.summary.retry_pending
       /\ drain.summary.successful = Cardinality(DoneWith("sent"))
       /\ drain.summary.failed = Cardinality(DoneWith("failed"))
       /\ drain.summary.retry_pending = Cardinality(DoneWith("pending"))


\* the call got as far as the resolution step: the string parses, its scheme
\* is http or https and its hostname is present and no loopback alias
ReachesResolution ==
    /\ validated.calls >= 1
    /\ validated.url # NoUrl
    /\ ~urlparse_raises(strip(validated.url))
    /\ CallScheme \in {"http", "https"}
    /\ CallHost # ""
    /\ CallHost \notin localhost_names

\* C36: in a call of validate_url that reaches the resolution step, a DNS
\* failure raises the resolution error, which is not the private-address
\* error; an unexpected other error of the resolution lets the call return;
\* and a name that resolves to a refused address raises the private-address
\* error, for either purpose.
C36_ResolutionErrorsKeptApart ==
    ReachesResolution
    => LET answer == getaddrinfo(CallHost)
       IN  /\ answer.raises = "gaierror" => validated.raises = "resolve"
           /\ answer.raises \notin {"none", "gaierror"} => validated.raises = ""
           /\ (answer.raises = "none" /\ answer.addrs \cap RefusedRanges # {})
                 => validated.raises = "private"
           /\ "resolve" # "private"

\* C36 witness: a webhook URL whose hostname made the resolver raise an
\* error other than a DNS failure was accepted.
C36_Witness ==
    /\ validated.calls = 1
    /\ validated.purpose = "webhook"
    /\ CallHost = "idna.example"
    /\ CallScheme = "https"
    /\ validated.raises = ""


\* the jobs of an item
JobsOf(item_id) == {j \in 1..Len(webhook_queue) : webhook_queue[j].item_id = item_id}

\* C37: whenever no alert request is between its steps, every alerted item
\* has at least one job; and a job is only ever added for an item that is
\* alerted when the job is added, whether the enqueue step fails or an undo
\* runs between the status update and the enqueue.
C37_AlertedItemsHaveJobs ==
    /\ [](inflight.alert.pc = "idle"
          => \A i \in 1..Len(items) : items[i].status = "alerted" => JobsOf(i) # {})
    /\ [][Len(webhook_queue') > Len(webhook_queue)
          => items'[webhook_queue'[Len(webhook_queue')].item_id].status = "alerted"]_vars


\* C40: every item the archival step of a digest run moves from digested to
\* archived is among the items the run read for its digest, whatever triage
\* and undo requests ran between the read and the archival; and a run that
\* read no item leaves the items as they are.
C40_ArchivedItemsWereInDigest ==
    [][generate_digest_clear_digest_items
       => /\ \A i \in 1..Len(items) :
                (items[i].status = "digested" /\ items'[i].status = "archived")
                => i \in inflight.digest.items
          /\ inflight.digest.items = {} => items' = items]_vars


\* C35: the cancellation of the delivery task ends the loop wherever it
\* finds it, idle or inside a drain cycle, and from then on no drain cycle
\* starts and no step of the loop runs: the queue, the outbound calls and the
\* loop's own state stay as they are.
C35_CancellationStopsLoop ==
    /\ [][process_webhooks_background_cancel => drain'.pc = "cancelled"]_vars
    /\ [][drain.pc = "cancelled"
          => /\ drain' = drain
             /\ UNCHANGED <<webhook_queue, posts, net>>
             /\ ~process_webhook_queue_start]_vars

\* C35 witness: the loop was cancelled in the middle of a drain cycle, after
\* the POST of a job and before the retry check.
C35_Witness ==
    /\ drain.pc = "cancelled"
    /\ drain.pending # <<>>
    /\ drain.done # <<>>
    /\ posts[1] > 0


\* C33: a fetch task that reached the entry loop with at least one entry ends
\* without an error, with the feed's last error cleared and its last-fetched
\* time set, and with every entry of the document processed, whatever
\* happened while an entry was handled.
C33_ParsedFetchSucceeds ==
    \A f \in FeedIds :
       (pool.tasks[f].pc = "done" /\ pool.tasks[f].items_processed > 0)
       => /\ pool.tasks[f].error = NULL
          /\ pool.tasks[f].entries = <<>>
          /\ feeds[f].last_error = NULL
          /\ feeds[f].last_fetched = now


\* C38: a step of feed ingestion leaves every existing item as it is, a
\* triaged item whose guid is observed again included; it may add pending
\* items and set the feeds' last-fetched time and last error, and it changes
\* nothing else of the stored data.
C38_IngestionKeepsExistingItems ==
    [][pool' # pool
       => /\ Len(items') >= Len(items)
          /\ \A i \in 1..Len(items) : items'[i] = items[i]
          /\ \A i \in (Len(items) + 1)..Len(items') :
                items'[i].status = "pending" /\ items'[i].triaged_by = NULL
          /\ \A f \in FeedIds :
                feeds'[f] = [feeds[f] EXCEPT !.last_fetched = feeds'[f].last_fetched,
                                             !.last_error = feeds'[f].last_error]
          /\ UNCHANGED <<webhook_queue, users, sessions, settings>>]_vars

\* C38 witness: add_item has returned None to a task for the guid of the one
\* stored item, which was archived before and is archived still.
C38_Witness ==
    \E f \in FeedIds :
       /\ pool.tasks[f].pc = "entries"
       /\ pool.tasks[f].item_id = 0
       /\ Len(items) = 1
       /\ items[1] = TriagedItem("archived")


\* the per-feed fetch tasks executing, of every invocation
Fetching ==
    {t \in (1..MaxRuns) \X FeedIds : inflight.runs[t[1]].tasks[t[2]] = "fetching"}

\* C34: across all fetch_all_feeds invocations in progress, at most
\* FEED_PARALLEL_WORKERS per-feed fetch tasks execute at any moment, and no
\* feed is being fetched by two tasks at once.
C34_FetchBoundedProcessWide ==
    /\ Cardinality(Fetching) <= settings.FEED_PARALLEL_WORKERS
    /\ \A s, t \in Fetching : s[2] = t[2] => s = t


\* the ids of the jobs a drain cycle still holds, in order
PendingIds == [k \in 1..Len(drain.pending) |-> drain.pending[k].id]

\* the jobs of the cycle not yet attempted
Unattempted ==
    IF drain.pc = "sent" THEN Range(Tail(PendingIds)) ELSE Range(PendingIds)

\* C31: in a drain cycle every selected job is attempted exactly once,
\* whether the deliveries before it succeeded, timed out or failed; and a
\* failed delivery, with the retry check after it, changes the record of its
\* own job only.
C31_FailureKeepsBatchGoing ==
    /\ [](/\ \A i, k \in 1..Len(drain.done) : drain.done[i] = drain.done[k] => i = k
          /\ Range(drain.done) \cap Unattempted = {}
          /\ Len(drain.done) + Cardinality(Unattempted) = drain.summary.processed
          /\ drain.pc = "idle" => Unattempted = {})
    /\ [][\A o \in DeliveryOutcomes \ {"ok"} :
             (process_webhook_queue_send(o)
              \/ (process_webhook_queue_retry /\ ~drain.success))
             => /\ Len(webhook_queue') = Len(webhook_queue)
                /\ \A j \in 1..Len(webhook_queue) :
                      j # Head(drain.pending).id => webhook_queue'[j] = webhook_queue[j]
                /\ posts'[Head(drain.pending).id] \in
                      {posts[Head(drain.pending).id], posts[Head(drain.pending).id] + 1}
                /\ \A j \in 1..Len(posts) :
                      j # Head(drain.pending).id => posts'[j] = posts[j]]_vars

\* C31 witness: a cycle over two jobs has ended; the delivery of the first
\* timed out, the second was delivered after it.
C31_Witness ==
    /\ drain.pc = "idle"
    /\ drain.done = <<1, 2>>
    /\ webhook_queue[1].status = "pending"
    /\ webhook_queue[1].error_message = "Timeout after 10s"
    /\ webhook_queue[2].status = "sent"
    /\ posts = <<1, 1>>

\* C39: an undo of an alerted item sets the item's status to pending and
\* clears its attribution, and leaves the queue as it is; the next drain
\* cycle selects the item's pending job like any other, and the delivery
\* attempt POSTs it although the item is not alerted.
C39_UndoKeepsJobs ==
    /\ [][(undo_triage(1, "alice") /\ items[1].status = "alerted")
          => /\ webhook_queue' = webhook_queue
             /\ items'[1] = [items[1] EXCEPT !.status = "pending",
                                            !.triaged_by = NULL,
                                            !.triaged_at = items'[1].triaged_at]
             /\ UNCHANGED <<feeds, posts, drain>>]_vars
    /\ [][(process_webhook_queue_start /\ items[1].status = "pending")
          => \A j \in 1..Len(webhook_queue) :
                (webhook_queue[j].status = "pending"
                 /\ webhook_queue[j].attempts < SqlAttemptLimit)
                => \E k \in 1..Len(drain'.pending) : drain'.pending[k].id = j]_vars
    /\ [][\A o \in DeliveryOutcomes :
             (process_webhook_queue_send(o) /\ items[1].status = "pending")
             => /\ posts'[Head(drain.pending).id] = posts[Head(drain.pending).id] + 1
                /\ o = "ok" => webhook_queue'[Head(drain.pending).id].status = "sent"]_vars

\* C39 witness: the job of the item has just been delivered, after the undo
\* and while the item is pending.
C39_Witness ==
    /\ items[1].status = "pending"
    /\ resp.op = "undo" /\ resp.code = 200
    /\ drain.pc = "sent"
    /\ drain.success
    /\ drain.done = <<1>>
    /\ webhook_queue[1].status = "sent"
    /\ webhook_queue[1].item_id = 1
====
